---- MODULE Spec2Model ----
(***************************************************************************)
(* Editor state engine of frame-snap (src/src/stores/editor.ts): the layer *)
(* set, the selection, the zoom and the undo/redo history, with the lists  *)
(* of layers that template callers hand to loadFromTemplate, and the       *)
(* canvas component that renders the layers                                *)
(* (src/src/components/Editor/Toolbar.vue, src/src/utils/fabric.ts).       *)
(*                                                                         *)
(* Representation.                                                         *)
(*  - null is the string Null where the code holds a string or null        *)
(*    (image, activeLayerId) and the empty tuple NoSize where it holds an   *)
(*    object or null (originalImageSize).                                  *)
(*  - opacity and zoom are kept in hundredths (0.8 is 80, zoom 1 is 100),   *)
(*    every other number is the number of the code; the number NaN, which  *)
(*    setZoom can be handed, is the definition NaN.                        *)
(*  - uuidv4() is a counter: the n-th call returns "u<n>".                 *)
(*  - historyIndex is the 0-based index of the code; history[i] of the     *)
(*    code is history[i + 1] here.                                         *)
(*  - HistoryState.timestamp (Date.now()) is written and never read by the *)
(*    store; a snapshot keeps its layers only.                             *)
(*  - Layer values are those of the declared types (strings, finite        *)
(*    numbers, booleans, arrays of strings), which JSON.stringify and      *)
(*    JSON.parse carry over unchanged; what the round trip changes is the  *)
(*    identity of the objects (see JSONClone and the field live).          *)
(*  - References: layers.value is bound to one array object at a time.     *)
(*    Another holder of an array (a template's config.layers, a snapshot)  *)
(*    either is that very object or is a different one. liveTemplate names *)
(*    the template whose list is the live array, and a snapshot's field    *)
(*    live says whether its array is the live array. An in-place mutation  *)
(*    (push, splice, index assignment, Object.assign on a layer) is seen    *)
(*    through every holder of the live array; an assignment to             *)
(*    layers.value binds a new array and leaves the old holders alone.     *)
(*  - Decodes: an image being read or decoded, for an upload of the home   *)
(*    view (src/unnamed/part_008) or for the canvas, is a record in loads   *)
(*    until it completes or fails; a failure is appended to rejected.       *)
(*  - Template files: the text of an imported file is a string, and        *)
(*    JSON.parse is the table of what it returns or throws for the texts   *)
(*    of the model (JSONParse).                                            *)
(*  - Renderer: a render object is a record with the identity oid, the     *)
(*    value tag of its 'data-layer-id', its kind and the props it was last *)
(*    drawn from (shown). A store operation queues the watcher jobs, which *)
(*    run (Flush) before the next event; an image decode completes in a    *)
(*    later event of its own. Selection and transform events are inputs.   *)
(***************************************************************************)
EXTENDS Integers, Sequences, FiniteSets, TLC

VARIABLES
    image,              \* editor.ts:19
    originalImageSize,  \* editor.ts:20
    layers,             \* editor.ts:21
    activeLayerId,      \* editor.ts:22
    zoom,               \* editor.ts:23 (hundredths)
    canvasSize,         \* editor.ts:24
    history,            \* editor.ts:25
    historyIndex,       \* editor.ts:26
    uuidCount,          \* number of uuidv4() calls made so far
    templates,          \* the callers' layer lists (template.config.layers)
    liveTemplate,       \* the template whose list is the array bound to layers.value
    lastOp,             \* the operation that ran last, its arguments, the branch it took and what it returned
    undone,             \* the layers that were live just before the undo() that ran last
    script,             \* how far the run so far follows the setImage/addFrame/deleteLayer scenario
    container,          \* client size of the canvas container at mount (NoSize: no canvas mounted)
    fabricCanvas,       \* Toolbar.vue:120: the objects on the canvas, in stacking order
    fabricObjects,      \* Toolbar.vue:121: layer id -> oid of its render object
    loads,              \* the image decodes in flight
    oidCount,           \* render objects created so far
    seen,               \* the image, layers, active layer and live array the watchers last ran on
    flushed,            \* the watcher jobs queued by the last store operation have run
    rerun,              \* runs in a row by which the layers watcher has queued itself (0: not queued)
    assigned,           \* ids of the layers whose props the last run of the layers watcher assigned
    rejected,           \* the decodes that failed so far, in order: an upload that never called back, a load whose promise rejected
    beforeCapture       \* the layers that were live just before the capture that ran last (none once undo, redo or clear ran)

vars == <<image, originalImageSize, layers, activeLayerId, zoom, canvasSize,
          history, historyIndex, uuidCount, templates, liveTemplate,
          lastOp, undone, script, container, fabricCanvas, fabricObjects,
          loads, oidCount, seen, flushed, rerun, assigned, rejected,
          beforeCapture>>

engine == <<image, originalImageSize, layers, activeLayerId, zoom, canvasSize,
            history, historyIndex>>

----------------------------------------------------------------------------
(* Bounds of the model. *)

\* uuidv4() calls in one run: the add operations stop when they are used up.
MaxIds == 2

\* History length the specifications explore (SpecLong, which runs the history
\* to MAX_HISTORY, has no such cap).
HistCap == 3

\* Layers in a session loaded from a template list (SpecTemplates).
MaxLayers == 2

\* Layers of the sessions that reorder them (SpecMove).
MoveLayers == 3

\* Captured moves in one of those sessions.
MoveSteps == 3

\* Render objects created in one session of the canvas.
MaxObjects == 9

\* Render objects made before the panels are left alone in the sessions with
\* image decodes (SpecCollage, SpecLogo).
MaxDecodes == 3

\* Runs in a row by which the layers watcher may queue itself before the
\* scheduler drops the job (the scheduler's recursion limit).
MaxReruns == 1

\* Decodes that fail in one session.
MaxRejected == 2

\* Layers added to a session loaded from the template of two layers (SpecOrder).
OrderAdds == 1

----------------------------------------------------------------------------
(* Program constants. *)

MAX_HISTORY == 50

ZoomMin == 10

ZoomMax == 500

Padding == 20

\* The number NaN, kept apart from the hundredths the setZoom calls of the
\* model pass (ZoomInputs); only equality is ever asked of it.
NaN == -1000000

Null == "null"

\* An argument the caller left out.
Undefined == "undefined"

NoSize == <<>>

Size(w, h) == <<[width |-> w, height |-> h]>>

DefaultCanvas == [width |-> 800, height |-> 600]

----------------------------------------------------------------------------
(* Helpers. *)

\* { ...a, ...b } and Object.assign(a, b): the fields of b win.
Merge(a, b) ==
    [k \in (DOMAIN a) \cup (DOMAIN b) |-> IF k \in DOMAIN b THEN b[k] ELSE a[k]]

\* v || null for a string v (undefined is Null here; the empty string is falsy).
OrNull(v) == IF v = "" THEN Null ELSE v

\* layers.value[0]?.id || null
FirstIdOrNull(ls) == IF Len(ls) = 0 THEN Null ELSE OrNull(ls[1].id)

\* layers.value.findIndex((l) => l.id === layerId), 1-based; 0 stands for -1.
FindIndex(ls, layerId) ==
    IF \E k \in 1..Len(ls) : ls[k].id = layerId
    THEN CHOOSE k \in 1..Len(ls) :
            /\ ls[k].id = layerId
            /\ \A j \in 1..(k - 1) : ls[j].id # layerId
    ELSE 0

\* Mutant of CountType: the layers of every type are counted.
CountTypeOfAll(ls, t) == Len(ls)

\* layers.value.filter((l) => l.type === t).length
CountType(ls, t) == Cardinality({k \in 1..Len(ls) : ls[k].type = t})

LayerIds(ls) == {ls[k].id : k \in 1..Len(ls)}

\* Mutant of uuidv4: the generator returns the same id at every call.
uuidv4Repeats(n) == "u1"

\* The value of the n-th uuidv4() call.
uuidv4(n) == "u" \o ToString(n)

\* JSON.parse(JSON.stringify(ls)): a new array of new layer objects, rebuilt
\* field by field from the enumerable fields of each layer and of its props.
JSONClone(ls) ==
    [k \in 1..Len(ls) |->
        [id      |-> ls[k].id,
         type    |-> ls[k].type,
         name    |-> ls[k].name,
         visible |-> ls[k].visible,
         lock    |-> ls[k].lock,
         props   |-> [f \in DOMAIN ls[k].props |-> ls[k].props[f]]]]

\* Mutant of canUndo: undo is offered on the first snapshot too.
canUndoAtFirst == historyIndex >= 0

canUndo == historyIndex > 0

canRedo == historyIndex < Len(history) - 1

\* The active layer getter: the layer activeLayerId names, as a tuple of 0 or 1 layers.
activeLayer ==
    IF activeLayerId = Null \/ FindIndex(layers, activeLayerId) = 0
    THEN <<>>
    ELSE <<layers[FindIndex(layers, activeLayerId)]>>

\* Mutant of calculatePosition: the default branch returns the topLeft anchor.
calculatePositionFallsToTopLeft(position, w, h) ==
    CASE position = "topLeft"      -> [x |-> Padding,      y |-> Padding]
      [] position = "topCenter"    -> [x |-> w \div 2,     y |-> Padding]
      [] position = "topRight"     -> [x |-> w - Padding,  y |-> Padding]
      [] position = "middleLeft"   -> [x |-> Padding,      y |-> h \div 2]
      [] position = "middleCenter" -> [x |-> w \div 2,     y |-> h \div 2]
      [] position = "middleRight"  -> [x |-> w - Padding,  y |-> h \div 2]
      [] position = "bottomLeft"   -> [x |-> Padding,      y |-> h - Padding]
      [] position = "bottomCenter" -> [x |-> w \div 2,     y |-> h - Padding]
      [] position = "bottomRight"  -> [x |-> w - Padding,  y |-> h - Padding]
      [] OTHER                     -> [x |-> Padding,      y |-> Padding]

\* calculatePosition(position, canvasWidth, canvasHeight). The canvas sizes of
\* the model are even, so that canvasWidth / 2 is the integer w \div 2.
calculatePosition(position, w, h) ==
    CASE position = "topLeft"      -> [x |-> Padding,      y |-> Padding]
      [] position = "topCenter"    -> [x |-> w \div 2,     y |-> Padding]
      [] position = "topRight"     -> [x |-> w - Padding,  y |-> Padding]
      [] position = "middleLeft"   -> [x |-> Padding,      y |-> h \div 2]
      [] position = "middleCenter" -> [x |-> w \div 2,     y |-> h \div 2]
      [] position = "middleRight"  -> [x |-> w - Padding,  y |-> h \div 2]
      [] position = "bottomLeft"   -> [x |-> Padding,      y |-> h - Padding]
      [] position = "bottomCenter" -> [x |-> w \div 2,     y |-> h - Padding]
      [] position = "bottomRight"  -> [x |-> w - Padding,  y |-> h - Padding]
      [] OTHER                     -> [x |-> w - Padding,  y |-> h - Padding]

\* The layer lists the template callers hold when the session starts: the
\* config.layers of the built-in template "builtin-1".
BuiltIn ==
    [t \in {"builtin-1"} |->
        <<[id      |-> "frame-1",
           type    |-> "frame",
           name    |-> "White border",
           visible |-> TRUE,
           lock    |-> FALSE,
           props   |-> [frameType       |-> "border",
                        borderWidth     |-> 20,
                        borderColor     |-> "#ffffff",
                        borderStyle     |-> "solid",
                        blurRadius      |-> 0,
                        filterType      |-> "grayscale",
                        filterIntensity |-> 0]]>>]

\* The lists of a session that also imported a template whose config.layers
\* is the empty array (importTemplate checks name, category and config only).
WithImported == [t \in {"builtin-1", "imported-1"} |->
                    IF t = "imported-1" THEN <<>> ELSE BuiltIn[t]]

\* The lists of a session that imported a template with one image-watermark
\* layer (TemplatesView hands template.config.layers to loadFromTemplate).
WithWatermark ==
    [t \in {"imported-2"} |->
        <<[id      |-> "logo-1",
           type    |-> "image-watermark",
           name    |-> "Logo",
           visible |-> TRUE,
           lock    |-> FALSE,
           props   |-> [src      |-> "data:logo",
                        x        |-> 640,
                        y        |-> 480,
                        width    |-> 160,
                        height   |-> 160,
                        opacity  |-> 100,
                        rotation |-> 0]]>>]

\* The lists of a session that imported a template with two frames.
WithPair ==
    [t \in {"imported-3"} |->
        <<[BuiltIn["builtin-1"][1] EXCEPT !.id = "pair-1", !.name = "Outer"],
          [BuiltIn["builtin-1"][1] EXCEPT !.id = "pair-2", !.name = "Inner",
                                          !.props.borderWidth = 5]>>]

----------------------------------------------------------------------------
(* References to the live array. *)

\* An in-place mutation of the live array to ls, seen through the snapshots
\* that hold the live array.
WriteThrough(h, ls) ==
    [j \in 1..Len(h) |-> IF h[j].live THEN [h[j] EXCEPT !.layers = ls] ELSE h[j]]

\* layers.value is bound to another array: no snapshot holds the live array any more.
Detach(h) == [j \in 1..Len(h) |-> [h[j] EXCEPT !.live = FALSE]]

\* The callers' lists after an in-place mutation of the live array to ls.
TemplatesAfter(ls) ==
    [t \in DOMAIN templates |-> IF t = liveTemplate THEN ls ELSE templates[t]]

----------------------------------------------------------------------------
(* History. *)

\* Mutant of saveToHistory: the forward branch is not sliced off before the push.
saveToHistoryNoSlice(h, i, ls) ==
    LET pushed == Append(h, [layers |-> JSONClone(ls), live |-> FALSE])
        over   == Len(pushed) > MAX_HISTORY
    IN  [history      |-> IF over THEN Tail(pushed) ELSE pushed,
         historyIndex |-> IF over THEN i ELSE i + 1,
         cut          |-> IF i < Len(h) - 1 THEN Len(h) - (i + 1) ELSE 0,
         evicted      |-> over]

\* Mutant of saveToHistory: the history is never shifted.
saveToHistoryNoLimit(h, i, ls) ==
    LET forward == i < Len(h) - 1
        kept    == IF forward THEN SubSeq(h, 1, i + 1) ELSE h
    IN  [history      |-> Append(kept, [layers |-> JSONClone(ls), live |-> FALSE]),
         historyIndex |-> i + 1,
         cut          |-> IF forward THEN Len(h) - (i + 1) ELSE 0,
         evicted      |-> FALSE]

\* saveToHistory() on history h with cursor i and live layers ls: the new
\* history and cursor, with the number of forward snapshots the slice
\* discarded (cut) and whether the oldest snapshot was shifted out (evicted).
saveToHistory(h, i, ls) ==
    LET forward == i < Len(h) - 1
        kept    == IF forward THEN SubSeq(h, 1, i + 1) ELSE h
        pushed  == Append(kept, [layers |-> JSONClone(ls), live |-> FALSE])
        over    == Len(pushed) > MAX_HISTORY
    IN  [history      |-> IF over THEN Tail(pushed) ELSE pushed,
         historyIndex |-> IF over THEN i ELSE i + 1,
         cut          |-> IF forward THEN Len(h) - (i + 1) ELSE 0,
         evicted      |-> over]

\* Mutant of restore: layers.value = state.layers, without the JSON copy: the
\* snapshot's array becomes the live array.
restoreByReference(h, i) ==
    [layers  |-> h[i + 1].layers,
     history |-> [Detach(h) EXCEPT ![i + 1].live = TRUE]]

\* undo() and redo() from the cursor i they moved to: the layers bound to
\* layers.value and the history, no snapshot of which is the new live array.
restore(h, i) ==
    [layers  |-> JSONClone(h[i + 1].layers),
     history |-> Detach(h)]

----------------------------------------------------------------------------
(* What the run records about the operation that ran last. *)

Empty == [k \in {} |-> 0]

ScenarioImage == <<"data:A", 800, 600>>

ScenarioFrame == [borderWidth |-> 20]

\* The position in the scenario setImage(img, 800, 600); addFrame({borderWidth:
\* 20}); deleteLayer(id of that frame) on a fresh store; -1 once the run left it.
ScriptAfter(op, args) ==
    CASE script = 0 /\ op = "setImage" /\ args = ScenarioImage -> 1
      [] script = 1 /\ op = "addFrame" /\ args[1] = ScenarioFrame -> 2
      [] script = 2 /\ op = "deleteLayer" /\ args[1] = layers[1].id -> 3
      [] OTHER -> -1

\* A store operation queues the jobs of the watchers it triggers and touches
\* nothing of the canvas.
Notified ==
    /\ flushed' = FALSE
    /\ UNCHANGED <<container, fabricCanvas, fabricObjects, loads, oidCount,
                   seen, rerun, assigned, rejected>>

Ran(op, args, did) ==
    /\ lastOp' = [op |-> op, args |-> args, did |-> did, ret |-> Null,
                  saved |-> FALSE, cut |-> 0, evicted |-> FALSE]
    /\ script' = ScriptAfter(op, args)
    /\ beforeCapture' = IF did /\ op \in {"undo", "redo", "clear"}
                        THEN <<>> ELSE beforeCapture
    /\ Notified

RanSaved(op, args, r, ret) ==
    /\ lastOp' = [op |-> op, args |-> args, did |-> TRUE, ret |-> ret,
                  saved |-> TRUE, cut |-> r.cut, evicted |-> r.evicted]
    /\ script' = ScriptAfter(op, args)
    /\ beforeCapture' = <<layers>>
    /\ Notified

\* An in-place mutation of the live array to ls followed by saveToHistory(), in
\* an operation that returns ret (Null when it returns nothing).
MutateAndSave(op, args, ls, ret) ==
    LET r == saveToHistory(WriteThrough(history, ls), historyIndex, ls)
    IN  /\ layers' = ls
        /\ templates' = TemplatesAfter(ls)
        /\ history' = r.history
        /\ historyIndex' = r.historyIndex
        /\ RanSaved(op, args, r, ret)
        /\ undone' = <<>>
        /\ UNCHANGED liveTemplate

\* No canvas component is mounted: the store is driven alone.
Unmounted ==
    /\ container = NoSize
    /\ fabricCanvas = <<>>
    /\ fabricObjects = Empty
    /\ loads = {}
    /\ oidCount = 0
    /\ seen = [image |-> Null, layers |-> <<>>, active |-> Null, live |-> Null]
    /\ flushed = TRUE
    /\ rerun = 0
    /\ assigned = {}
    /\ rejected = <<>>

----------------------------------------------------------------------------
(* Operations of the store. *)

Init ==
    /\ image = Null
    /\ originalImageSize = NoSize
    /\ layers = <<>>
    /\ activeLayerId = Null
    /\ zoom = 100
    /\ canvasSize = DefaultCanvas
    /\ history = <<>>
    /\ historyIndex = -1
    /\ uuidCount = 0
    /\ templates = BuiltIn
    /\ liveTemplate = Null
    /\ lastOp = [op |-> "init", args |-> <<>>, did |-> TRUE, ret |-> Null,
                 saved |-> FALSE, cut |-> 0, evicted |-> FALSE]
    /\ undone = <<>>
    /\ script = 0
    /\ beforeCapture = <<>>
    /\ Unmounted

\* Mutant of SetImage: history and historyIndex are not reset before the capture.
SetImageKeepsHistory(src, width, height) ==
    LET r == saveToHistory(Detach(history), historyIndex, <<>>)
    IN  /\ image' = src
        /\ originalImageSize' = Size(width, height)
        /\ canvasSize' = [width |-> width, height |-> height]
        /\ layers' = <<>>
        /\ activeLayerId' = Null
        /\ history' = r.history
        /\ historyIndex' = r.historyIndex
        /\ liveTemplate' = Null
        /\ RanSaved("setImage", <<src, width, height>>, r, Null)
        /\ undone' = <<>>
        /\ UNCHANGED <<zoom, uuidCount, templates>>

SetImage(src, width, height) ==
    LET r == saveToHistory(<<>>, -1, <<>>)
    IN  /\ image' = src
        /\ originalImageSize' = Size(width, height)
        /\ canvasSize' = [width |-> width, height |-> height]
        /\ layers' = <<>>
        /\ activeLayerId' = Null
        /\ history' = r.history
        /\ historyIndex' = r.historyIndex
        /\ liveTemplate' = Null
        /\ RanSaved("setImage", <<src, width, height>>, r, Null)
        /\ undone' = <<>>
        /\ UNCHANGED <<zoom, uuidCount, templates>>

\* Mutant of AddLayer: the new layer goes in front of the others.
AddLayerInFront(op, args, layer) ==
    /\ MutateAndSave(op, args, <<layer>> \o layers, layer.id)
    /\ uuidCount' = uuidCount + 1
    /\ activeLayerId' = layer.id
    /\ UNCHANGED <<image, originalImageSize, zoom, canvasSize>>

\* Mutant of AddLayer: the new layer is not selected.
AddLayerUnselected(op, args, layer) ==
    /\ MutateAndSave(op, args, Append(layers, layer), layer.id)
    /\ uuidCount' = uuidCount + 1
    /\ UNCHANGED <<image, originalImageSize, activeLayerId, zoom, canvasSize>>

\* The add operations: build the layer, push it, select it, save, return its
\* id.
AddLayer(op, args, layer) ==
    /\ MutateAndSave(op, args, Append(layers, layer), layer.id)
    /\ activeLayerId' = layer.id
    /\ uuidCount' = uuidCount + 1
    /\ UNCHANGED <<image, originalImageSize, zoom, canvasSize>>

AddImageLayer(props) ==
    AddLayer("addImageLayer", <<props>>,
        [id      |-> uuidv4(uuidCount + 1),
         type    |-> "image",
         name    |-> "Image " \o ToString(CountType(layers, "image") + 1),
         visible |-> TRUE,
         lock    |-> FALSE,
         props   |-> Merge([src      |-> IF image = Null THEN "" ELSE image,
                            x        |-> 0,
                            y        |-> 0,
                            width    |-> canvasSize.width,
                            height   |-> canvasSize.height,
                            rotation |-> 0,
                            opacity  |-> 100], props)])

\* addImageWatermark(src, position, props) of the store's specification: a
\* position-based add like addTextWatermark, of an 'image-watermark' layer
\* with the props of ImageWatermarkLayerProps.
AddImageWatermark(src, position, props) ==
    LET pos == calculatePosition(position, canvasSize.width, canvasSize.height)
    IN  AddLayer("addImageWatermark", <<src, position, props>>,
            [id      |-> uuidv4(uuidCount + 1),
             type    |-> "image-watermark",
             name    |-> "Image " \o ToString(CountType(layers, "image-watermark") + 1),
             visible |-> TRUE,
             lock    |-> FALSE,
             props   |-> Merge([src      |-> src,
                                x        |-> pos.x,
                                y        |-> pos.y,
                                width    |-> 100,
                                height   |-> 100,
                                opacity  |-> 100,
                                rotation |-> 0], props)])

AddTextWatermark(text, position, options) ==
    LET given == IF position = Undefined THEN "bottomRight" ELSE position
        pos   == calculatePosition(given, canvasSize.width, canvasSize.height)
    IN  AddLayer("addTextWatermark", <<text, position, options>>,
            [id      |-> uuidv4(uuidCount + 1),
             type    |-> "text",
             name    |-> "Text " \o ToString(CountType(layers, "text") + 1),
             visible |-> TRUE,
             lock    |-> FALSE,
             props   |-> Merge([text            |-> text,
                                x               |-> pos.x,
                                y               |-> pos.y,
                                fontSize        |-> 24,
                                fontFamily      |-> "Arial",
                                fontWeight      |-> "normal",
                                fontStyle       |-> "normal",
                                color           |-> "#ffffff",
                                backgroundColor |-> "transparent",
                                opacity         |-> 80,
                                rotation        |-> 0], options)])

\* Mutant of AddFrame: the defaults are spread over the caller's props.
AddFrameDefaultsWin(props) ==
    AddLayer("addFrame", <<props>>,
        [id      |-> uuidv4(uuidCount + 1),
         type    |-> "frame",
         name    |-> "Frame " \o ToString(CountType(layers, "frame") + 1),
         visible |-> TRUE,
         lock    |-> FALSE,
         props   |-> Merge(props, [frameType       |-> "border",
                                   borderWidth     |-> 10,
                                   borderColor     |-> "#ffffff",
                                   borderStyle     |-> "solid",
                                   blurRadius      |-> 0,
                                   filterType      |-> "grayscale",
                                   filterIntensity |-> 0])])

AddFrame(props) ==
    AddLayer("addFrame", <<props>>,
        [id      |-> uuidv4(uuidCount + 1),
         type    |-> "frame",
         name    |-> "Frame " \o ToString(CountType(layers, "frame") + 1),
         visible |-> TRUE,
         lock    |-> FALSE,
         props   |-> Merge([frameType       |-> "border",
                            borderWidth     |-> 10,
                            borderColor     |-> "#ffffff",
                            borderStyle     |-> "solid",
                            blurRadius      |-> 0,
                            filterType      |-> "grayscale",
                            filterIntensity |-> 0], props)])

AddCollage(props) ==
    AddLayer("addCollage", <<props>>,
        [id      |-> uuidv4(uuidCount + 1),
         type    |-> "collage",
         name    |-> "Collage " \o ToString(CountType(layers, "collage") + 1),
         visible |-> TRUE,
         lock    |-> FALSE,
         props   |-> Merge([layout  |-> "grid",
                            columns |-> 2,
                            rows    |-> 2,
                            gap     |-> 10,
                            images  |-> <<>>], props)])

\* Mutant of UpdateLayer: the updates replace the props instead of merging.
UpdateLayerReplacesProps(layerId, updates) ==
    LET k  == FindIndex(layers, layerId)
        ls == [layers EXCEPT ![k].props = updates]
    IN  /\ IF k # 0
           THEN /\ layers' = ls
                /\ templates' = TemplatesAfter(ls)
                /\ history' = WriteThrough(history, ls)
           ELSE UNCHANGED <<layers, templates, history>>
        /\ Ran("updateLayer", <<layerId, updates>>, k # 0)
        /\ undone' = <<>>
        /\ UNCHANGED <<image, originalImageSize, activeLayerId, zoom, canvasSize,
                       historyIndex, uuidCount, liveTemplate>>

UpdateLayer(layerId, updates) ==
    LET k  == FindIndex(layers, layerId)
        ls == [layers EXCEPT ![k].props = Merge(layers[k].props, updates)]
    IN  /\ IF k # 0
           THEN /\ layers' = ls
                /\ templates' = TemplatesAfter(ls)
                /\ history' = WriteThrough(history, ls)
           ELSE UNCHANGED <<layers, templates, history>>
        /\ Ran("updateLayer", <<layerId, updates>>, k # 0)
        /\ undone' = <<>>
        /\ UNCHANGED <<image, originalImageSize, activeLayerId, zoom, canvasSize,
                       historyIndex, uuidCount, liveTemplate>>

\* The sequence without its k-th element: splice(k, 1).
Splice(ls, k) == SubSeq(ls, 1, k - 1) \o SubSeq(ls, k + 1, Len(ls))

\* Mutant of DeleteLayer: the selection is left on the deleted layer.
DeleteLayerKeepsActive(layerId) ==
    LET k  == FindIndex(layers, layerId)
        ls == Splice(layers, k)
    IN  IF k # 0
        THEN /\ MutateAndSave("deleteLayer", <<layerId>>, ls, Null)
             /\ UNCHANGED <<image, originalImageSize, activeLayerId, zoom,
                            canvasSize, uuidCount>>
        ELSE /\ Ran("deleteLayer", <<layerId>>, FALSE)
             /\ undone' = <<>>
             /\ UNCHANGED <<engine, uuidCount, templates, liveTemplate>>

\* Mutant of DeleteLayer: the deletion is not saved to the history.
DeleteLayerNoSave(layerId) ==
    LET k  == FindIndex(layers, layerId)
        ls == Splice(layers, k)
    IN  IF k # 0
        THEN /\ layers' = ls
             /\ templates' = TemplatesAfter(ls)
             /\ history' = WriteThrough(history, ls)
             /\ activeLayerId' = IF activeLayerId = layerId
                                 THEN FirstIdOrNull(ls)
                                 ELSE activeLayerId
             /\ Ran("deleteLayer", <<layerId>>, TRUE)
             /\ undone' = <<>>
             /\ UNCHANGED <<image, originalImageSize, zoom, canvasSize,
                            historyIndex, uuidCount, liveTemplate>>
        ELSE /\ Ran("deleteLayer", <<layerId>>, FALSE)
             /\ undone' = <<>>
             /\ UNCHANGED <<engine, uuidCount, templates, liveTemplate>>

\* Mutant of DeleteLayer: deleting the active layer leaves no selection.
DeleteLayerDeselects(layerId) ==
    LET k  == FindIndex(layers, layerId)
        ls == Splice(layers, k)
    IN  IF k # 0
        THEN /\ MutateAndSave("deleteLayer", <<layerId>>, ls, Null)
             /\ activeLayerId' = IF activeLayerId = layerId
                                 THEN Null
                                 ELSE activeLayerId
             /\ UNCHANGED <<image, originalImageSize, zoom, canvasSize, uuidCount>>
        ELSE /\ Ran("deleteLayer", <<layerId>>, FALSE)
             /\ undone' = <<>>
             /\ UNCHANGED <<engine, uuidCount, templates, liveTemplate>>

DeleteLayer(layerId) ==
    LET k  == FindIndex(layers, layerId)
        ls == Splice(layers, k)
    IN  IF k # 0
        THEN /\ MutateAndSave("deleteLayer", <<layerId>>, ls, Null)
             /\ activeLayerId' = IF activeLayerId = layerId
                                 THEN FirstIdOrNull(ls)
                                 ELSE activeLayerId
             /\ UNCHANGED <<image, originalImageSize, zoom, canvasSize, uuidCount>>
        ELSE /\ Ran("deleteLayer", <<layerId>>, FALSE)
             /\ undone' = <<>>
             /\ UNCHANGED <<engine, uuidCount, templates, liveTemplate>>

\* Mutant of SetActiveLayer: the selection change is saved to the history.
SetActiveLayerSaves(layerId) ==
    /\ activeLayerId' = layerId
    /\ MutateAndSave("setActiveLayer", <<layerId>>, layers, Null)
    /\ UNCHANGED <<image, originalImageSize, zoom, canvasSize, uuidCount>>

SetActiveLayer(layerId) ==
    /\ activeLayerId' = layerId
    /\ Ran("setActiveLayer", <<layerId>>, TRUE)
    /\ undone' = <<>>
    /\ UNCHANGED <<image, originalImageSize, layers, zoom, canvasSize, history,
                   historyIndex, uuidCount, templates, liveTemplate>>

\* Mutant of ToggleLayerVisibility: the flip is not saved to the history.
ToggleLayerVisibilityNoSave(layerId) ==
    LET k  == FindIndex(layers, layerId)
        ls == [layers EXCEPT ![k].visible = ~layers[k].visible]
    IN  IF k # 0
        THEN /\ layers' = ls
             /\ templates' = TemplatesAfter(ls)
             /\ history' = WriteThrough(history, ls)
             /\ Ran("toggleLayerVisibility", <<layerId>>, TRUE)
             /\ undone' = <<>>
             /\ UNCHANGED <<image, originalImageSize, activeLayerId, zoom,
                            canvasSize, historyIndex, uuidCount, liveTemplate>>
        ELSE /\ Ran("toggleLayerVisibility", <<layerId>>, FALSE)
             /\ undone' = <<>>
             /\ UNCHANGED <<engine, uuidCount, templates, liveTemplate>>

ToggleLayerVisibility(layerId) ==
    LET k  == FindIndex(layers, layerId)
        ls == [layers EXCEPT ![k].visible = ~layers[k].visible]
    IN  IF k # 0
        THEN /\ MutateAndSave("toggleLayerVisibility", <<layerId>>, ls, Null)
             /\ UNCHANGED <<image, originalImageSize, activeLayerId, zoom,
                            canvasSize, uuidCount>>
        ELSE /\ Ran("toggleLayerVisibility", <<layerId>>, FALSE)
             /\ undone' = <<>>
             /\ UNCHANGED <<engine, uuidCount, templates, liveTemplate>>

\* Mutant of MoveLayer: 'up' goes to the lower index and 'down' to the higher.
MoveLayerInverted(layerId, direction) ==
    LET k  == FindIndex(layers, layerId)
        n  == IF direction = "up" THEN k - 1 ELSE k + 1
        ls == [layers EXCEPT ![k] = layers[n], ![n] = layers[k]]
    IN  IF k # 0 /\ n >= 1 /\ n <= Len(layers)
        THEN /\ MutateAndSave("moveLayer", <<layerId, direction>>, ls, Null)
             /\ UNCHANGED <<image, originalImageSize, activeLayerId, zoom,
                            canvasSize, uuidCount>>
        ELSE /\ Ran("moveLayer", <<layerId, direction>>, FALSE)
             /\ undone' = <<>>
             /\ UNCHANGED <<engine, uuidCount, templates, liveTemplate>>

\* Mutant of MoveLayer: a call that swaps nothing saves to the history too.
MoveLayerSavesAnyway(layerId, direction) ==
    LET k  == FindIndex(layers, layerId)
        n  == IF direction = "up" THEN k + 1 ELSE k - 1
        ls == [layers EXCEPT ![k] = layers[n], ![n] = layers[k]]
    IN  IF k # 0 /\ n >= 1 /\ n <= Len(layers)
        THEN /\ MutateAndSave("moveLayer", <<layerId, direction>>, ls, Null)
             /\ UNCHANGED <<image, originalImageSize, activeLayerId, zoom,
                            canvasSize, uuidCount>>
        ELSE /\ MutateAndSave("moveLayer", <<layerId, direction>>, layers, Null)
             /\ UNCHANGED <<image, originalImageSize, activeLayerId, zoom,
                            canvasSize, uuidCount>>

MoveLayer(layerId, direction) ==
    LET k  == FindIndex(layers, layerId)
        n  == IF direction = "up" THEN k + 1 ELSE k - 1
        ls == [layers EXCEPT ![k] = layers[n], ![n] = layers[k]]
    IN  IF k # 0 /\ n >= 1 /\ n <= Len(layers)
        THEN /\ MutateAndSave("moveLayer", <<layerId, direction>>, ls, Null)
             /\ UNCHANGED <<image, originalImageSize, activeLayerId, zoom,
                            canvasSize, uuidCount>>
        ELSE /\ Ran("moveLayer", <<layerId, direction>>, FALSE)
             /\ undone' = <<>>
             /\ UNCHANGED <<engine, uuidCount, templates, liveTemplate>>

\* Math.min(a, b) and Math.max(a, b): NaN when an argument is NaN.
MathMin(a, b) == IF a = NaN \/ b = NaN THEN NaN ELSE IF a < b THEN a ELSE b

MathMax(a, b) == IF a = NaN \/ b = NaN THEN NaN ELSE IF a > b THEN a ELSE b

\* Math.max(0.1, Math.min(5, value)), in hundredths.
Clamp(value) == MathMax(ZoomMin, MathMin(ZoomMax, value))

SetZoom(value) ==
    /\ zoom' = Clamp(value)
    /\ Ran("setZoom", <<value>>, TRUE)
    /\ undone' = <<>>
    /\ UNCHANGED <<image, originalImageSize, layers, activeLayerId, canvasSize,
                   history, historyIndex, uuidCount, templates, liveTemplate>>

\* Mutant of Undo: the cursor moves back and the layers are not replaced.
UndoCursorOnly ==
    IF canUndo
    THEN /\ historyIndex' = historyIndex - 1
         /\ activeLayerId' = Null
         /\ Ran("undo", <<>>, TRUE)
         /\ undone' = <<layers>>
         /\ UNCHANGED <<image, originalImageSize, layers, zoom, canvasSize,
                        history, uuidCount, templates, liveTemplate>>
    ELSE /\ Ran("undo", <<>>, FALSE)
         /\ undone' = <<>>
         /\ UNCHANGED <<engine, uuidCount, templates, liveTemplate>>

Undo ==
    IF canUndo
    THEN LET r == restore(history, historyIndex - 1)
         IN  /\ historyIndex' = historyIndex - 1
             /\ layers' = r.layers
             /\ history' = r.history
             /\ activeLayerId' = Null
             /\ liveTemplate' = Null
             /\ Ran("undo", <<>>, TRUE)
             /\ undone' = <<layers>>
             /\ UNCHANGED <<image, originalImageSize, zoom, canvasSize,
                            uuidCount, templates>>
    ELSE /\ Ran("undo", <<>>, FALSE)
         /\ undone' = <<>>
         /\ UNCHANGED <<engine, uuidCount, templates, liveTemplate>>

\* Mutant of Redo: the selection is kept across the redo.
RedoKeepsSelection ==
    IF canRedo
    THEN LET r == restore(history, historyIndex + 1)
         IN  /\ historyIndex' = historyIndex + 1
             /\ layers' = r.layers
             /\ history' = r.history
             /\ liveTemplate' = Null
             /\ Ran("redo", <<>>, TRUE)
             /\ undone' = IF lastOp.op = "undo" /\ lastOp.did THEN undone ELSE <<>>
             /\ UNCHANGED <<image, originalImageSize, activeLayerId, zoom,
                            canvasSize, uuidCount, templates>>
    ELSE /\ Ran("redo", <<>>, FALSE)
         /\ undone' = <<>>
         /\ UNCHANGED <<engine, uuidCount, templates, liveTemplate>>

Redo ==
    IF canRedo
    THEN LET r == restore(history, historyIndex + 1)
         IN  /\ historyIndex' = historyIndex + 1
             /\ layers' = r.layers
             /\ history' = r.history
             /\ activeLayerId' = Null
             /\ liveTemplate' = Null
             /\ Ran("redo", <<>>, TRUE)
             /\ undone' = IF lastOp.op = "undo" /\ lastOp.did THEN undone ELSE <<>>
             /\ UNCHANGED <<image, originalImageSize, zoom, canvasSize,
                            uuidCount, templates>>
    ELSE /\ Ran("redo", <<>>, FALSE)
         /\ undone' = <<>>
         /\ UNCHANGED <<engine, uuidCount, templates, liveTemplate>>

\* Mutant of Clear: the history is emptied and the cursor left where it was.
ClearKeepsCursor ==
    /\ image' = Null
    /\ originalImageSize' = NoSize
    /\ layers' = <<>>
    /\ activeLayerId' = Null
    /\ history' = <<>>
    /\ canvasSize' = DefaultCanvas
    /\ liveTemplate' = Null
    /\ Ran("clear", <<>>, TRUE)
    /\ undone' = <<>>
    /\ UNCHANGED <<zoom, historyIndex, uuidCount, templates>>

\* Mutant of Clear: the canvas size is left as the image set it.
ClearKeepsCanvas ==
    /\ image' = Null
    /\ originalImageSize' = NoSize
    /\ layers' = <<>>
    /\ activeLayerId' = Null
    /\ history' = <<>>
    /\ historyIndex' = -1
    /\ liveTemplate' = Null
    /\ Ran("clear", <<>>, TRUE)
    /\ undone' = <<>>
    /\ UNCHANGED <<zoom, canvasSize, uuidCount, templates>>

Clear ==
    /\ image' = Null
    /\ originalImageSize' = NoSize
    /\ layers' = <<>>
    /\ activeLayerId' = Null
    /\ history' = <<>>
    /\ historyIndex' = -1
    /\ canvasSize' = DefaultCanvas
    /\ liveTemplate' = Null
    /\ Ran("clear", <<>>, TRUE)
    /\ undone' = <<>>
    /\ UNCHANGED <<zoom, uuidCount, templates>>

\* Mutant of LoadFromTemplate: the selection is left as it was.
LoadFromTemplateKeepsSelection(t) ==
    LET ls == templates[t]
        r  == saveToHistory(Detach(history), historyIndex, ls)
    IN  /\ layers' = ls
        /\ liveTemplate' = t
        /\ history' = r.history
        /\ historyIndex' = r.historyIndex
        /\ RanSaved("loadFromTemplate", <<t>>, r, Null)
        /\ undone' = <<>>
        /\ UNCHANGED <<image, originalImageSize, activeLayerId, zoom, canvasSize,
                       uuidCount, templates>>

\* loadFromTemplate(templates[t]): the caller's list becomes the live array.
LoadFromTemplate(t) ==
    LET ls == templates[t]
        r  == saveToHistory(Detach(history), historyIndex, ls)
    IN  /\ layers' = ls
        /\ liveTemplate' = t
        /\ activeLayerId' = FirstIdOrNull(ls)
        /\ history' = r.history
        /\ historyIndex' = r.historyIndex
        /\ RanSaved("loadFromTemplate", <<t>>, r, Null)
        /\ undone' = <<>>
        /\ UNCHANGED <<image, originalImageSize, zoom, canvasSize, uuidCount,
                       templates>>

----------------------------------------------------------------------------
(* The canvas component (Toolbar.vue) and its drawing helpers (fabric.ts). *)

\* A render object on the canvas.
Obj(oid, tag, kind, shown) ==
    [oid |-> oid, tag |-> tag, kind |-> kind, shown |-> shown]

\* The size initCanvas() gives the canvas: the container less 40, at most
\* 800 x 600. No helper resizes the canvas afterwards.
canvasWidth == IF container[1].width - 40 < 800 THEN container[1].width - 40 ELSE 800

canvasHeight == IF container[1].height - 40 < 600 THEN container[1].height - 40 ELSE 600

\* canvas.remove(obj) for the objects whose oid is in oids.
Remove(canvas, oids) == SelectSeq(canvas, LAMBDA o : o.oid \notin oids)

\* obj.set('data-layer-id', tag) on every object of the canvas.
Retag(canvas, tag) == [j \in 1..Len(canvas) |-> [canvas[j] EXCEPT !.tag = tag]]

\* obj.set(updates) on the object oid, wherever it is.
SetShown(canvas, oid, updates) ==
    [j \in 1..Len(canvas) |->
        IF canvas[j].oid = oid
        THEN [canvas[j] EXCEPT !.shown = Merge(@, updates)]
        ELSE canvas[j]]

\* fabricObjects.set(id, oid).
MapSet(m, id, oid) == [k \in (DOMAIN m) \cup {id} |-> IF k = id THEN oid ELSE m[k]]

\* addFrameToCanvas(), its rectangles tagged by the caller: the four
\* rectangles of a border, none for a filter or a blur (which is applied to
\* the base image and adds no object). n objects exist already.
addFrameToCanvas(props, tag, n) ==
    IF props.frameType = "border"
    THEN [j \in 1..4 |->
            Obj(n + j, tag, "rect",
                [side        |-> <<"top", "bottom", "left", "right">>[j],
                 borderWidth |-> props.borderWidth,
                 borderColor |-> props.borderColor])]
    ELSE <<>>

\* A decode in flight: the object it will add, the layer it is for, the props
\* object it reads on completion (props, kept equal to the layer's props
\* while current says that it is the layer's own props object) and, for a
\* collage, the images still to load after this one.
Load(kind, oid, layer, src, rest, props, current) ==
    [kind |-> kind, oid |-> oid, layer |-> layer, src |-> src, rest |-> rest,
     props |-> props, current |-> current]

\* The layer activeLayer resolves to (its id), or Null.
ActiveKey(ls, id) == IF FindIndex(ls, id) = 0 THEN Null ELSE id

\* The last store operation bound another array to layers.value.
ArrayReplaced ==
    \/ lastOp.op \in {"setImage", "clear"}
    \/ lastOp.op \in {"undo", "redo"} /\ lastOp.did
    \/ lastOp.op = "loadFromTemplate" /\ liveTemplate # seen.live

\* The props objects the decodes in flight will read: a layer's object
\* follows updateLayer until the layer leaves the live array.
Track(ls) ==
    {IF l.current /\ ~ArrayReplaced /\ FindIndex(layers, l.layer) # 0
     THEN [l EXCEPT !.props = layers[FindIndex(layers, l.layer)].props]
     ELSE [l EXCEPT !.current = FALSE] : l \in ls}

\* watch(() => editorStore.image): a new image clears the canvas and starts
\* the decode of the base image; the map is left as it is.
ImageWatcher(r) ==
    IF ~flushed /\ image # seen.image /\ image # Null
    THEN [r EXCEPT !.canvas = <<>>,
                   !.loads  = @ \cup {Load("base", r.oid + 1, Null, image, <<>>,
                                           Empty, FALSE)},
                   !.oid    = @ + 1]
    ELSE r

\* watch(() => editorStore.activeLayer), not deep: it runs when activeLayer
\* becomes another layer object, never on a change inside the same layer.
ActiveLayerWatcher(r) ==
    LET key   == ActiveKey(layers, activeLayerId)
        fired == /\ ~flushed
                 /\ \/ key # seen.active
                    \/ lastOp.op = "loadFromTemplate" /\ liveTemplate # seen.live
        layer == layers[FindIndex(layers, activeLayerId)]
    IN  IF ~fired \/ key = Null THEN r
        ELSE IF layer.id \notin DOMAIN r.objects THEN r
        ELSE CASE layer.type = "text" ->
                    [r EXCEPT !.canvas =
                        SetShown(@, r.objects[layer.id],
                                 [text     |-> layer.props.text,
                                  fontSize |-> layer.props.fontSize,
                                  color    |-> layer.props.color,
                                  opacity  |-> layer.props.opacity])]
               [] layer.type = "image-watermark" ->
                    [r EXCEPT !.canvas =
                        SetShown(@, r.objects[layer.id],
                                 [opacity |-> layer.props.opacity])]
               [] layer.type = "frame" ->
                    LET kept  == SelectSeq(r.canvas, LAMBDA o : o.tag # layer.id)
                        rects == addFrameToCanvas(layer.props, layer.id, r.oid)
                    IN  [r EXCEPT !.canvas = kept \o rects,
                                  !.oid    = @ + Len(rects)]
               [] OTHER -> r

\* The layers watcher without a collage, first half: every layer without a
\* map entry gets its objects, from the i-th layer on.
RECURSIVE AddNewLayers(_, _)
AddNewLayers(r, i) ==
    IF i > Len(r.layers) THEN r
    ELSE
      LET layer  == r.layers[i]
          storeW == IF canvasSize.width = 0 THEN canvasWidth ELSE canvasSize.width
          storeH == IF canvasSize.height = 0 THEN canvasHeight ELSE canvasSize.height
          next ==
            IF layer.id \in DOMAIN r.objects THEN r
            ELSE CASE layer.type = "text" ->
                   [r EXCEPT
                      !.canvas  = Append(@, Obj(r.oid + 1, layer.id, "text",
                                      Merge(layer.props,
                                            [x |-> canvasWidth \div 2,
                                             y |-> canvasHeight \div 2]))),
                      !.objects = MapSet(@, layer.id, r.oid + 1),
                      !.oid     = @ + 1]
                 [] layer.type = "image-watermark" ->
                   LET scaled == Merge(layer.props,
                          [x      |-> (layer.props.x * canvasWidth) \div storeW,
                           y      |-> (layer.props.y * canvasHeight) \div storeH,
                           width  |-> (layer.props.width * canvasWidth) \div storeW,
                           height |-> (layer.props.height * canvasHeight) \div storeH])
                   IN  [r EXCEPT
                          !.layers[i].props = scaled,
                          !.assigned = @ \cup {layer.id},
                          !.loads    =
                              {IF l.layer = layer.id
                               THEN [l EXCEPT !.current = FALSE] ELSE l : l \in @}
                              \cup {Load("watermark", r.oid + 1, layer.id,
                                         scaled.src, <<>>, scaled, TRUE)},
                          !.oid      = @ + 1]
                 [] layer.type = "frame" ->
                   LET byW   == (layer.props.borderWidth * canvasWidth) \div storeW
                       byH   == (layer.props.borderWidth * canvasHeight) \div storeH
                       width == IF byW < byH THEN byW ELSE byH
                       rects == addFrameToCanvas(
                                    [layer.props EXCEPT
                                        !.borderWidth = IF width < 5 THEN 5 ELSE width],
                                    layer.id, r.oid)
                   IN  IF rects = <<>> THEN r
                       ELSE [r EXCEPT !.canvas  = @ \o rects,
                                      !.objects = MapSet(@, layer.id, rects[1].oid),
                                      !.oid     = @ + Len(rects)]
                 [] OTHER -> r
      IN  AddNewLayers(next, i + 1)

\* Second half: the mapped object of every id that is no layer's id is
\* removed from the canvas and its entry deleted.
RemoveDeleted(r) ==
    LET gone == {id \in DOMAIN r.objects : id \notin LayerIds(r.layers)}
    IN  [r EXCEPT !.canvas  = Remove(@, {r.objects[id] : id \in gone}),
                  !.objects = [id \in (DOMAIN r.objects) \ gone |-> r.objects[id]]]

\* The end of the collage branch: every object on the canvas is tagged with
\* the collage's id, and the first one is mapped to it.
CollageDone(canvas, objects, id) ==
    [canvas  |-> Retag(canvas, id),
     objects |-> IF canvas = <<>> THEN objects ELSE MapSet(objects, id, canvas[1].oid)]

\* The layers watcher with a collage in the layer set: the mapped objects are
\* removed and the map cleared; addCollageToCanvas() then clears the canvas
\* and loads the collage's images one after the other, or returns at once
\* when there are none.
CollageBranch(r, c) ==
    LET canvas == Remove(r.canvas, {r.objects[id] : id \in DOMAIN r.objects})
        done   == CollageDone(canvas, Empty, c.id)
    IN  IF c.props.images = <<>>
        THEN [r EXCEPT !.canvas = done.canvas, !.objects = done.objects]
        ELSE [r EXCEPT !.canvas  = <<>>,
                       !.objects = Empty,
                       !.loads   = @ \cup {Load("cell", r.oid + 1, c.id,
                                                c.props.images[1],
                                                Tail(c.props.images), Empty, FALSE)},
                       !.oid     = @ + 1]

\* watch(() => editorStore.layers, ..., {deep: true}), up to its first
\* suspension.
LayersWatcher(r) ==
    LET collages == {k \in 1..Len(r.layers) : r.layers[k].type = "collage"}
        first    == CHOOSE k \in collages : \A j \in collages : k <= j
    IN  IF collages # {}
        THEN CollageBranch(r, r.layers[first])
        ELSE RemoveDeleted(AddNewLayers(r, 1))

\* The layers watcher has a job queued: the last operation changed something
\* in the layers or bound another array, or the watcher's own last run did.
LayersTriggered ==
    \/ ~flushed /\ (layers # seen.layers \/ ArrayReplaced)
    \/ rerun > 0

\* The queued watcher jobs run, in the order the watchers were created:
\* image, activeLayer, layers. A run of the layers watcher that assigned
\* props queues the layers watcher again; the scheduler drops the job after
\* MaxReruns such runs in a row.
Flush ==
    /\ ~flushed \/ rerun > 0
    /\ LET r0 == [canvas |-> fabricCanvas, objects |-> fabricObjects,
                  loads |-> IF flushed THEN loads ELSE Track(loads),
                  oid |-> oidCount, layers |-> layers, assigned |-> {}]
           r1 == ImageWatcher(r0)
           r2 == ActiveLayerWatcher(r1)
           r3 == IF LayersTriggered THEN LayersWatcher(r2) ELSE r2
       IN  /\ r3.oid <= MaxObjects
           /\ fabricCanvas' = r3.canvas
           /\ fabricObjects' = r3.objects
           /\ loads' = r3.loads
           /\ oidCount' = r3.oid
           /\ layers' = r3.layers
           /\ templates' = TemplatesAfter(r3.layers)
           /\ history' = WriteThrough(history, r3.layers)
           /\ assigned' = r3.assigned
           /\ rerun' = IF r3.assigned # {} /\ rerun < MaxReruns THEN rerun + 1 ELSE 0
           /\ seen' = [image  |-> image,
                       layers |-> r3.layers,
                       active |-> ActiveKey(r3.layers, activeLayerId),
                       live   |-> liveTemplate]
    /\ flushed' = TRUE
    /\ UNCHANGED <<image, originalImageSize, activeLayerId, zoom, canvasSize,
                   historyIndex, uuidCount, liveTemplate, lastOp, undone, script,
                   container, rejected, beforeCapture>>

\* fitCanvasToContainer(), in hundredths: the canvas is never scaled up.
fitCanvasToContainer ==
    LET scaleX == ((container[1].width - 40) * 100) \div canvasWidth
        scaleY == ((container[1].height - 40) * 100) \div canvasHeight
    IN  MathMin(MathMin(scaleX, scaleY), 100)

\* The decode of a base image completes: processImage() adds the image to
\* the canvas and loadBaseImage() goes on to handleResize(), which calls
\* setZoom(scale).
BaseLoaded(l) ==
    /\ l.kind = "base"
    /\ fabricCanvas' = Append(fabricCanvas, Obj(l.oid, Null, "base", [src |-> l.src]))
    /\ loads' = loads \ {l}
    /\ zoom' = Clamp(fitCanvasToContainer)
    /\ lastOp' = [op |-> "setZoom", args |-> <<fitCanvasToContainer>>, did |-> TRUE,
                  ret |-> Null, saved |-> FALSE, cut |-> 0, evicted |-> FALSE]
    /\ script' = ScriptAfter("setZoom", <<fitCanvasToContainer>>)
    /\ undone' = <<>>
    /\ flushed' = FALSE
    /\ UNCHANGED <<image, originalImageSize, layers, activeLayerId, canvasSize,
                   history, historyIndex, uuidCount, templates, liveTemplate,
                   container, fabricObjects, oidCount, seen, rerun, assigned,
                   rejected, beforeCapture>>

\* The decode of a collage image completes: the image is added, and either
\* the next image starts to load or the watcher goes on to its end.
CellLoaded(l) ==
    LET canvas == Append(fabricCanvas, Obj(l.oid, Null, "cell", [src |-> l.src]))
        done   == CollageDone(canvas, fabricObjects, l.layer)
    IN  /\ l.kind = "cell"
        /\ IF l.rest # <<>>
           THEN /\ oidCount < MaxObjects
                /\ fabricCanvas' = canvas
                /\ loads' = (loads \ {l}) \cup
                               {Load("cell", oidCount + 1, l.layer, Head(l.rest),
                                     Tail(l.rest), Empty, FALSE)}
                /\ oidCount' = oidCount + 1
                /\ UNCHANGED fabricObjects
           ELSE /\ fabricCanvas' = done.canvas
                /\ fabricObjects' = done.objects
                /\ loads' = loads \ {l}
                /\ UNCHANGED oidCount
        /\ UNCHANGED <<image, originalImageSize, layers, activeLayerId, zoom,
                       canvasSize, history, historyIndex, uuidCount, templates,
                       liveTemplate, lastOp, undone, script, container, seen,
                       flushed, rerun, assigned, rejected, beforeCapture>>

\* The decode addImageWatermarkToCanvas() waits for completes: the image is
\* drawn from the props object the call read, tagged, added and mapped.
WatermarkLoaded(l) ==
    /\ l.kind = "watermark"
    /\ fabricCanvas' = Append(fabricCanvas, Obj(l.oid, l.layer, "image", l.props))
    /\ fabricObjects' = MapSet(fabricObjects, l.layer, l.oid)
    /\ loads' = loads \ {l}
    /\ UNCHANGED <<image, originalImageSize, layers, activeLayerId, zoom,
                   canvasSize, history, historyIndex, uuidCount, templates,
                   liveTemplate, lastOp, undone, script, container, oidCount,
                   seen, flushed, rerun, assigned, rejected, beforeCapture>>

\* The decode of a base image fails: addImageToCanvas() rejects, and
\* loadBaseImage() logs the error and returns without handleResize().
BaseFailed(l) ==
    /\ l.kind = "base"
    /\ loads' = loads \ {l}
    /\ rejected' = Append(rejected, l)
    /\ UNCHANGED <<image, originalImageSize, layers, activeLayerId, zoom,
                   canvasSize, history, historyIndex, uuidCount, templates,
                   liveTemplate, lastOp, undone, script, container,
                   fabricCanvas, fabricObjects, oidCount, seen, flushed, rerun,
                   assigned, beforeCapture>>

\* loadImage(file) of the home view: the file is read and decoded in the
\* background; the decode carries the data URL and, in props, the size the
\* decoded image will have.
StartUpload(src, width, height) ==
    LET l == Load("upload", 0, Null, src, <<>>,
                  [width |-> width, height |-> height], FALSE)
    IN  /\ l \notin loads
        /\ loads' = loads \cup {l}
        /\ UNCHANGED <<image, originalImageSize, layers, activeLayerId, zoom,
                       canvasSize, history, historyIndex, uuidCount, templates,
                       liveTemplate, lastOp, undone, script, container,
                       fabricCanvas, fabricObjects, oidCount, seen, flushed,
                       rerun, assigned, rejected, beforeCapture>>

\* Mutant of UploadFailed: the failed decode hands the store an image of no size.
UploadFailedCommits(l) ==
    LET r == saveToHistory(<<>>, -1, <<>>)
    IN  /\ l.kind = "upload"
        /\ loads' = loads \ {l}
        /\ rejected' = Append(rejected, l)
        /\ image' = l.src
        /\ originalImageSize' = Size(0, 0)
        /\ canvasSize' = [width |-> 0, height |-> 0]
        /\ layers' = <<>>
        /\ activeLayerId' = Null
        /\ history' = r.history
        /\ historyIndex' = r.historyIndex
        /\ liveTemplate' = Null
        /\ lastOp' = [op |-> "setImage", args |-> <<l.src, 0, 0>>, did |-> TRUE,
                      ret |-> Null, saved |-> TRUE, cut |-> r.cut,
                      evicted |-> r.evicted]
        /\ script' = ScriptAfter("setImage", <<l.src, 0, 0>>)
        /\ undone' = <<>>
        /\ flushed' = FALSE
        /\ beforeCapture' = <<layers>>
        /\ UNCHANGED <<zoom, uuidCount, templates, container, fabricCanvas,
                       fabricObjects, oidCount, seen, rerun, assigned>>

\* The read or the decode of an uploaded file fails: loadImage() set no error
\* handler, so that nothing runs.
UploadFailed(l) ==
    /\ l.kind = "upload"
    /\ loads' = loads \ {l}
    /\ rejected' = Append(rejected, l)
    /\ UNCHANGED <<image, originalImageSize, layers, activeLayerId, zoom,
                   canvasSize, history, historyIndex, uuidCount, templates,
                   liveTemplate, lastOp, undone, script, container,
                   fabricCanvas, fabricObjects, oidCount, seen, flushed, rerun,
                   assigned, beforeCapture>>

\* img.onload of loadImage(): setImage(result, img.width, img.height), as
\* SetImage does it. (router.push('/editor') shows the canvas, which loads
\* the store's image when it is mounted as the image watcher does.)
UploadDecoded(l) ==
    LET r    == saveToHistory(<<>>, -1, <<>>)
        args == <<l.src, l.props.width, l.props.height>>
    IN  /\ l.kind = "upload"
        /\ loads' = loads \ {l}
        /\ image' = l.src
        /\ originalImageSize' = Size(l.props.width, l.props.height)
        /\ canvasSize' = [width |-> l.props.width, height |-> l.props.height]
        /\ layers' = <<>>
        /\ activeLayerId' = Null
        /\ history' = r.history
        /\ historyIndex' = r.historyIndex
        /\ liveTemplate' = Null
        /\ lastOp' = [op |-> "setImage", args |-> args, did |-> TRUE,
                      ret |-> Null, saved |-> TRUE, cut |-> r.cut,
                      evicted |-> r.evicted]
        /\ script' = ScriptAfter("setImage", args)
        /\ undone' = <<>>
        /\ flushed' = FALSE
        /\ beforeCapture' = <<layers>>
        /\ UNCHANGED <<zoom, uuidCount, templates, container, fabricCanvas,
                       fabricObjects, oidCount, seen, rerun, assigned, rejected>>

\* The objects a user can select and transform: texts and images (the
\* frame's rectangles and the base image are not selectable).
Selectable(o) == o.kind \in {"text", "image", "cell"}

\* handleSelection(): the selected object's layer id, if it has one, becomes
\* the selection.
handleSelection(o) == o.tag # Null /\ SetActiveLayer(o.tag)

handleSelectionCleared == SetActiveLayer(Null)

\* handleObjectModified(): the committed transform is written back.
handleObjectModified(o, transform) == o.tag # Null /\ UpdateLayer(o.tag, transform)

----------------------------------------------------------------------------
(* The template store (src/src/stores/template.ts). *)

\* What JSON.parse makes of a text that is no JSON text, and of a JSON text
\* whose value is null, a number, a string or an array.
Thrown == [kind |-> "SyntaxError", keys |-> {}, name |-> Undefined,
           category |-> Undefined, config |-> <<>>]

Value(kind) == [Thrown EXCEPT !.kind = kind]

\* What JSON.parse makes of a JSON text whose value is an object: the keys
\* it has and the values of name, category and config (a key the text does
\* not have reads as undefined; config is a tuple of 0 or 1 objects).
Object(keys, name, category, config) ==
    [kind |-> "object", keys |-> keys, name |-> name, category |-> category,
     config |-> config]

\* The layers of the template file with one layer.
FileLayers ==
    <<[id      |-> "frame-7",
       type    |-> "frame",
       name    |-> "Black border",
       visible |-> TRUE,
       lock    |-> FALSE,
       props   |-> [frameType       |-> "border",
                    borderWidth     |-> 10,
                    borderColor     |-> "#000000",
                    borderStyle     |-> "solid",
                    blurRadius      |-> 0,
                    filterType      |-> "grayscale",
                    filterIntensity |-> 0]]>>

\* JSON.parse(jsonString) for the texts of the files a user imports.
JSONParse(jsonString) ==
    CASE jsonString = "invalid json" -> Thrown
      [] jsonString = "" -> Thrown
      [] jsonString = "{\"name\":\"Cut off\",\"category\":" -> Thrown
      [] jsonString = "null" -> Value("null")
      [] jsonString = "42" -> Value("number")
      [] jsonString = "\"frame\"" -> Value("string")
      [] jsonString = "[]" -> Value("array")
      [] jsonString = "{}" -> Object({}, Undefined, Undefined, <<>>)
      [] jsonString = "{\"name\":\"Only Name\"}" ->
            Object({"name"}, "Only Name", Undefined, <<>>)
      [] jsonString = "{\"name\":\"N\",\"category\":\"frame\"}" ->
            Object({"name", "category"}, "N", "frame", <<>>)
      [] jsonString = "{\"name\":\"N\",\"config\":{\"layers\":[]}}" ->
            Object({"name", "config"}, "N", Undefined, <<[layers |-> <<>>]>>)
      [] jsonString = "{\"category\":\"frame\",\"config\":{\"layers\":[]}}" ->
            Object({"category", "config"}, Undefined, "frame", <<[layers |-> <<>>]>>)
      [] jsonString = "{\"name\":\"\",\"category\":\"frame\",\"config\":{\"layers\":[]}}" ->
            Object({"name", "category", "config"}, "", "frame", <<[layers |-> <<>>]>>)
      [] jsonString = "{\"name\":\"N\",\"category\":\"frame\",\"config\":null}" ->
            Object({"name", "category", "config"}, "N", "frame", <<>>)
      [] jsonString = "{\"name\":\"Imported Template\",\"category\":\"frame\",\"config\":{\"layers\":[]}}" ->
            Object({"name", "category", "config"}, "Imported Template", "frame",
                   <<[layers |-> <<>>]>>)
      [] jsonString = "{\"name\":\"Black\",\"category\":\"frame\",\"config\":{\"layers\":[...]}}" ->
            Object({"name", "category", "config"}, "Black", "frame",
                   <<[layers |-> FileLayers]>>)

\* !v for a string or undefined.
Not(v) == v = Undefined \/ v = ""

\* Mutant of ImportTemplate: config is not among the required fields.
ImportTemplateWithoutConfig(jsonString) ==
    LET data   == JSONParse(jsonString)
        caught == \/ data.kind \in {"SyntaxError", "null"}
                  \/ Not(data.name) \/ Not(data.category)
        id     == uuidv4(uuidCount + 1)
        ls     == IF data.config = <<>> THEN <<>> ELSE data.config[1].layers
    IN  /\ lastOp' = [op |-> "importTemplate", args |-> <<jsonString>>,
                      did |-> ~caught, ret |-> IF caught THEN Null ELSE id,
                      saved |-> FALSE, cut |-> 0, evicted |-> FALSE]
        /\ script' = ScriptAfter("importTemplate", <<jsonString>>)
        /\ Notified
        /\ templates' = IF caught THEN templates ELSE MapSet(templates, id, ls)
        /\ uuidCount' = IF caught THEN uuidCount ELSE uuidCount + 1
        /\ UNCHANGED <<engine, liveTemplate, undone, beforeCapture>>

\* importTemplate(jsonString): JSON.parse throws on a text that is no JSON,
\* the read of data.name throws on null, and the validation throws when
\* name, category or config is falsy; the catch returns null. Otherwise the
\* template gets a new id and is pushed on customTemplates; the id stands
\* for the template returned.
ImportTemplate(jsonString) ==
    LET data   == JSONParse(jsonString)
        caught == \/ data.kind \in {"SyntaxError", "null"}
                  \/ Not(data.name) \/ Not(data.category) \/ data.config = <<>>
        id     == uuidv4(uuidCount + 1)
    IN  /\ lastOp' = [op |-> "importTemplate", args |-> <<jsonString>>,
                      did |-> ~caught, ret |-> IF caught THEN Null ELSE id,
                      saved |-> FALSE, cut |-> 0, evicted |-> FALSE]
        /\ script' = ScriptAfter("importTemplate", <<jsonString>>)
        /\ Notified
        /\ templates' = IF caught THEN templates
                                 ELSE MapSet(templates, id, data.config[1].layers)
        /\ uuidCount' = IF caught THEN uuidCount ELSE uuidCount + 1
        /\ UNCHANGED <<engine, liveTemplate, undone, beforeCapture>>

----------------------------------------------------------------------------
(* Inputs. *)

ImageInputs == {ScenarioImage, <<"data:B", 400, 300>>}

FrameInputs == {ScenarioFrame}

PositionInputs == {"topLeft"}

\* The nine anchors, 'custom', a string that names no position, and no
\* position argument at all.
AllPositions ==
    {"topLeft", "topCenter", "topRight", "middleLeft", "middleCenter",
     "middleRight", "bottomLeft", "bottomCenter", "bottomRight", "custom",
     "nowhere", Undefined}

\* The nine anchors and 'custom': the positions of WatermarkPosition.
WatermarkPositions == AllPositions \ {"nowhere", Undefined}

\* The overrides of an image watermark: none, and size and opacity.
WatermarkInputs == {Empty, [width |-> 150, height |-> 150, opacity |-> 50]}

\* The collage of the collage panel, which has at least one image.
CollageInputs == {[images |-> <<"data:cell">>]}

\* The edit of the active text layer in the layer panel (updateTextLayer).
PanelInputs ==
    {[text |-> "Edited", fontSize |-> 24, color |-> "#ffffff", opacity |-> 50]}

\* Client sizes of the canvas container: room for the 800 x 600 canvas, and
\* a small window.
ContainerInputs == {[width |-> 840, height |-> 640], [width |-> 440, height |-> 340]}

\* setZoom(0.05), setZoom(2), setZoom(10) and setZoom(NaN).
ZoomInputs == {5, 200, 1000, NaN}

\* The texts of the files a user imports as templates: texts that are no
\* JSON, JSON texts of values that are no objects, objects that lack
\* required fields or hold them empty or null, and two template files.
TemplateTexts ==
    {"invalid json", "", "{\"name\":\"Cut off\",\"category\":", "null", "42",
     "\"frame\"", "[]", "{}", "{\"name\":\"Only Name\"}",
     "{\"name\":\"N\",\"category\":\"frame\"}",
     "{\"name\":\"N\",\"config\":{\"layers\":[]}}",
     "{\"category\":\"frame\",\"config\":{\"layers\":[]}}",
     "{\"name\":\"\",\"category\":\"frame\",\"config\":{\"layers\":[]}}",
     "{\"name\":\"N\",\"category\":\"frame\",\"config\":null}",
     "{\"name\":\"Imported Template\",\"category\":\"frame\",\"config\":{\"layers\":[]}}",
     "{\"name\":\"Black\",\"category\":\"frame\",\"config\":{\"layers\":[...]}}"}

\* The write-back of a committed transform (handleObjectModified).
UpdateInputs ==
    {[x |-> 10, y |-> 10, width |-> 100, height |-> 100, rotation |-> 90]}

----------------------------------------------------------------------------
(* Specifications. Each explores the operations of one part of the store,  *)
(* with calls that reach their layer: a call with an id no layer has, an   *)
(* undo() with canUndo false and a redo() with canRedo false return early. *)

CanAdd == uuidCount < MaxIds

\* A capture from this state leaves at most HistCap snapshots.
Room == historyIndex + 2 <= HistCap

\* Layers, selection and history: every operation but setZoom and
\* loadFromTemplate.
Next ==
    \/ \E i \in ImageInputs : SetImage(i[1], i[2], i[3])
    \/ CanAdd /\ Room /\ AddImageLayer(Empty)
    \/ CanAdd /\ Room /\ \E p \in PositionInputs : AddTextWatermark("Test", p, Empty)
    \/ CanAdd /\ Room /\ \E p \in FrameInputs : AddFrame(p)
    \/ CanAdd /\ Room /\ AddCollage(Empty)
    \/ \E id \in LayerIds(layers), u \in UpdateInputs : UpdateLayer(id, u)
    \/ Room /\ \E id \in LayerIds(layers) : DeleteLayer(id)
    \/ \E id \in LayerIds(layers) \cup {Null, "ghost"} : SetActiveLayer(id)
    \/ Room /\ \E id \in LayerIds(layers) : ToggleLayerVisibility(id)
    \/ Room /\ \E id \in LayerIds(layers), d \in {"up", "down"} : MoveLayer(id, d)
    \/ canUndo /\ Undo
    \/ canRedo /\ Redo
    \/ Clear

Spec == Init /\ [][Next]_vars

\* Sequences of add, updateLayer and deleteLayer operations on a fresh store.
NextEdit ==
    \/ CanAdd /\ Room /\ AddImageLayer(Empty)
    \/ CanAdd /\ Room /\ \E p \in PositionInputs : AddTextWatermark("Test", p, Empty)
    \/ CanAdd /\ Room /\ \E p \in FrameInputs : AddFrame(p)
    \/ CanAdd /\ Room /\ AddCollage(Empty)
    \/ \E id \in LayerIds(layers), u \in UpdateInputs : UpdateLayer(id, u)
    \/ Room /\ \E id \in LayerIds(layers) : DeleteLayer(id)

SpecEdit == Init /\ [][NextEdit]_vars

\* Sessions loaded from a caller's template list and edited.
NextTemplates ==
    \/ SetImage(ScenarioImage[1], ScenarioImage[2], ScenarioImage[3])
    \/ Room /\ \E t \in DOMAIN templates : LoadFromTemplate(t)
    \/ CanAdd /\ Len(layers) < MaxLayers /\ Room /\ \E p \in FrameInputs : AddFrame(p)
    \/ \E id \in LayerIds(layers), u \in UpdateInputs : UpdateLayer(id, u)
    \/ Room /\ \E id \in LayerIds(layers) : DeleteLayer(id)
    \/ canUndo /\ Undo
    \/ canRedo /\ Redo
    \/ Clear

SpecTemplates == Init /\ [][NextTemplates]_vars

\* One layer toggled over and over, undone and redone: the history runs to
\* MAX_HISTORY and past it.
NextLong ==
    \/ SetImage(ScenarioImage[1], ScenarioImage[2], ScenarioImage[3])
    \/ CanAdd /\ layers = <<>> /\ AddFrame(ScenarioFrame)
    \/ \E id \in LayerIds(layers) : ToggleLayerVisibility(id)
    \/ canUndo /\ Undo
    \/ canRedo /\ Redo

SpecLong == Init /\ [][NextLong]_vars

\* Calls as a caller with a stale view makes them: with the id of a layer, an
\* id no layer ever had ("ghost") or the first generated id, whose layer may be
\* gone, undo() and redo() whatever canUndo and canRedo are. A call that returns early is made in every state; one that captures
\* needs room in the history.
Stale(id) == FindIndex(layers, id) = 0

CallIds == LayerIds(layers) \cup {"ghost", uuidv4(1)}

NextCalls ==
    \/ SetImage(ScenarioImage[1], ScenarioImage[2], ScenarioImage[3])
    \/ CanAdd /\ Room /\ \E p \in FrameInputs : AddFrame(p)
    \/ \E id \in CallIds, u \in UpdateInputs : UpdateLayer(id, u)
    \/ \E id \in CallIds : (Room \/ Stale(id)) /\ DeleteLayer(id)
    \/ \E id \in CallIds :
          (Room \/ Stale(id)) /\ ToggleLayerVisibility(id)
    \/ \E id \in CallIds, d \in {"up", "down"} :
          (Room \/ Stale(id)) /\ MoveLayer(id, d)
    \/ \E id \in LayerIds(layers) : SetActiveLayer(id)
    \/ Undo
    \/ Redo

SpecCalls == Init /\ [][NextCalls]_vars

\* A capture from this state leaves fewer than HistCap snapshots.
ShortRoom == historyIndex + 2 < HistCap

\* Every operation of the store, setZoom among them, on sessions of one layer
\* and a short history.
NextZoom ==
    \/ SetImage(ScenarioImage[1], ScenarioImage[2], ScenarioImage[3])
    \/ CanAdd /\ ShortRoom /\ layers = <<>> /\ AddImageLayer(Empty)
    \/ CanAdd /\ ShortRoom /\ layers = <<>> /\ AddTextWatermark("Test", "topLeft", Empty)
    \/ CanAdd /\ ShortRoom /\ layers = <<>> /\ AddFrame(ScenarioFrame)
    \/ CanAdd /\ ShortRoom /\ layers = <<>> /\ AddCollage(Empty)
    \/ ShortRoom /\ layers = <<>> /\ \E t \in DOMAIN templates : LoadFromTemplate(t)
    \/ \E id \in LayerIds(layers), u \in UpdateInputs : UpdateLayer(id, u)
    \/ ShortRoom /\ \E id \in LayerIds(layers) : DeleteLayer(id)
    \/ \E id \in LayerIds(layers) \cup {Null, "ghost"} : SetActiveLayer(id)
    \/ ShortRoom /\ \E id \in LayerIds(layers) : ToggleLayerVisibility(id)
    \/ \E id \in LayerIds(layers), d \in {"up", "down"} : MoveLayer(id, d)
    \/ \E v \in ZoomInputs : SetZoom(v)
    \/ canUndo /\ Undo
    \/ canRedo /\ Redo
    \/ Clear

SpecZoom == Init /\ [][NextZoom]_vars

\* Three frames added to a fresh store and moved up and down.
NextMove ==
    \/ uuidCount < MoveLayers /\ AddFrame(Empty)
    \/ \E id \in LayerIds(layers) \cup {"ghost"}, d \in {"up", "down"} :
          historyIndex + 2 <= MoveLayers + MoveSteps /\ MoveLayer(id, d)

SpecMove == Init /\ [][NextMove]_vars

\* Text watermarks at every position, on the canvas of either image and on
\* the default canvas.
NextPosition ==
    \/ \E i \in ImageInputs : SetImage(i[1], i[2], i[3])
    \/ CanAdd /\ Room /\ \E p \in AllPositions : AddTextWatermark("x", p, Empty)
    \/ canUndo /\ Undo
    \/ Clear

SpecPosition == Init /\ [][NextPosition]_vars

\* Sessions that load the built-in template's list and an imported, empty list.
InitLoad ==
    /\ image = Null
    /\ originalImageSize = NoSize
    /\ layers = <<>>
    /\ activeLayerId = Null
    /\ zoom = 100
    /\ canvasSize = DefaultCanvas
    /\ history = <<>>
    /\ historyIndex = -1
    /\ uuidCount = 0
    /\ templates = WithImported
    /\ liveTemplate = Null
    /\ lastOp = [op |-> "init", args |-> <<>>, did |-> TRUE, ret |-> Null,
                 saved |-> FALSE, cut |-> 0, evicted |-> FALSE]
    /\ undone = <<>>
    /\ script = 0
    /\ beforeCapture = <<>>
    /\ Unmounted

NextLoad ==
    \/ SetImage(ScenarioImage[1], ScenarioImage[2], ScenarioImage[3])
    \/ Room /\ \E t \in DOMAIN templates : LoadFromTemplate(t)
    \/ CanAdd /\ Len(layers) < MaxLayers /\ Room /\ \E p \in FrameInputs : AddFrame(p)
    \/ Room /\ \E id \in LayerIds(layers) : DeleteLayer(id)
    \/ \E id \in LayerIds(layers) : SetActiveLayer(id)
    \/ canUndo /\ Undo

SpecLoad == InitLoad /\ [][NextLoad]_vars

\* Image watermarks at every position, on the canvas of either image and on
\* the default canvas.
NextWatermark ==
    \/ \E i \in ImageInputs : SetImage(i[1], i[2], i[3])
    \/ CanAdd /\ Room /\ \E p \in WatermarkPositions, o \in WatermarkInputs :
          AddImageWatermark("data:logo", p, o)
    \/ Room /\ \E id \in LayerIds(layers) : DeleteLayer(id)
    \/ canUndo /\ Undo
    \/ canRedo /\ Redo
    \/ Clear

SpecWatermark == Init /\ [][NextWatermark]_vars

\* The canvas is mounted on a fresh store, in a container of either size.
InitRender ==
    /\ image = Null
    /\ originalImageSize = NoSize
    /\ layers = <<>>
    /\ activeLayerId = Null
    /\ zoom = 100
    /\ canvasSize = DefaultCanvas
    /\ history = <<>>
    /\ historyIndex = -1
    /\ uuidCount = 0
    /\ templates = WithWatermark
    /\ liveTemplate = Null
    /\ lastOp = [op |-> "init", args |-> <<>>, did |-> TRUE, ret |-> Null,
                 saved |-> FALSE, cut |-> 0, evicted |-> FALSE]
    /\ undone = <<>>
    /\ script = 0
    /\ beforeCapture = <<>>
    /\ \E c \in ContainerInputs : container = Size(c.width, c.height)
    /\ fabricCanvas = <<>>
    /\ fabricObjects = Empty
    /\ loads = {}
    /\ oidCount = 0
    /\ seen = [image |-> Null, layers |-> <<>>, active |-> Null, live |-> Null]
    /\ flushed = TRUE
    /\ rerun = 0
    /\ assigned = {}
    /\ rejected = <<>>

\* No watcher job is queued: the next event can be handled.
Quiet == flushed /\ rerun = 0

\* No job is queued and the canvas has room for the four rectangles of a frame.
Ready == Quiet /\ oidCount + 4 <= MaxObjects

\* Texts and frames on the canvas: the panels' operations, the watchers,
\* the decode of the base image and the canvas events.
NextRender ==
    \/ Ready /\ SetImage(ScenarioImage[1], ScenarioImage[2], ScenarioImage[3])
    \/ Ready /\ CanAdd /\ Room /\ \E p \in PositionInputs : AddTextWatermark("Test", p, Empty)
    \/ Ready /\ CanAdd /\ Room /\ \E p \in FrameInputs : AddFrame(p)
    \/ Ready /\ activeLayer # <<>> /\ activeLayer[1].type = "text" /\
          \E u \in PanelInputs : UpdateLayer(activeLayer[1].id, u)
    \/ Ready /\ Room /\ \E id \in LayerIds(layers) : DeleteLayer(id)
    \/ Ready /\ canUndo /\ Undo
    \/ Flush
    \/ Quiet /\ \E l \in loads : BaseLoaded(l)
    \/ Ready /\ \E j \in 1..Len(fabricCanvas) :
          Selectable(fabricCanvas[j]) /\ handleSelection(fabricCanvas[j])
    \/ Ready /\ \E j \in 1..Len(fabricCanvas), u \in UpdateInputs :
          Selectable(fabricCanvas[j]) /\ handleObjectModified(fabricCanvas[j], u)

SpecRender == InitRender /\ [][NextRender]_vars

\* The panels are used while fewer than MaxDecodes render objects were made.
Early == Quiet /\ oidCount < MaxDecodes

\* A collage and texts on the canvas, with the decodes of the collage's
\* images.
NextCollage ==
    \/ Early /\ SetImage(ScenarioImage[1], ScenarioImage[2], ScenarioImage[3])
    \/ Early /\ CanAdd /\ Room /\ \E p \in PositionInputs : AddTextWatermark("Test", p, Empty)
    \/ Early /\ CanAdd /\ Room /\ \E p \in CollageInputs : AddCollage(p)
    \/ Early /\ Room /\ \E id \in LayerIds(layers) : DeleteLayer(id)
    \/ Early /\ canUndo /\ Undo
    \/ Flush
    \/ Quiet /\ \E l \in loads : BaseLoaded(l)
    \/ Quiet /\ \E l \in loads : CellLoaded(l)

SpecCollage == InitRender /\ [][NextCollage]_vars

\* An image watermark loaded from a template, with its decodes and the
\* selection events of the canvas.
NextLogo ==
    \/ Early /\ Room /\ \E t \in DOMAIN templates : LoadFromTemplate(t)
    \/ Early /\ Room /\ \E id \in LayerIds(layers) : DeleteLayer(id)
    \/ Early /\ canUndo /\ Undo
    \/ Flush
    \/ Quiet /\ \E l \in loads : WatermarkLoaded(l)
    \/ Quiet /\ loads = {} /\ \E j \in 1..Len(fabricCanvas) :
          Selectable(fabricCanvas[j]) /\ handleSelection(fabricCanvas[j])
    \/ Quiet /\ loads = {} /\ (\E j \in 1..Len(fabricCanvas) : Selectable(fabricCanvas[j])) /\
          handleSelectionCleared
    \/ Quiet /\ loads = {} /\ \E j \in 1..Len(fabricCanvas), u \in UpdateInputs :
          Selectable(fabricCanvas[j]) /\ handleObjectModified(fabricCanvas[j], u)

SpecLogo == InitRender /\ [][NextLogo]_vars

\* The sessions of SpecLong, cleared at any point and started again.
NextRange ==
    \/ NextLong
    \/ Clear

SpecRange == Init /\ [][NextRange]_vars

\* Sessions loaded from a template of two layers and reordered: the template
\* is loaded at any point of the history, the edits are made at its end.
InitOrder ==
    /\ image = Null
    /\ originalImageSize = NoSize
    /\ layers = <<>>
    /\ activeLayerId = Null
    /\ zoom = 100
    /\ canvasSize = DefaultCanvas
    /\ history = <<>>
    /\ historyIndex = -1
    /\ uuidCount = 0
    /\ templates = WithPair
    /\ liveTemplate = Null
    /\ lastOp = [op |-> "init", args |-> <<>>, did |-> TRUE, ret |-> Null,
                 saved |-> FALSE, cut |-> 0, evicted |-> FALSE]
    /\ undone = <<>>
    /\ script = 0
    /\ beforeCapture = <<>>
    /\ Unmounted

NextOrder ==
    \/ Room /\ \E t \in DOMAIN templates : LoadFromTemplate(t)
    \/ ~canRedo /\ uuidCount < OrderAdds /\ Room /\ \E p \in FrameInputs : AddFrame(p)
    \/ ~canRedo /\ activeLayer # <<>> /\
          \E u \in UpdateInputs : UpdateLayer(activeLayer[1].id, u)
    \/ ~canRedo /\ Room /\ \E id \in LayerIds(layers) : DeleteLayer(id)
    \/ ~canRedo /\ Room /\ activeLayer # <<>> /\
          ToggleLayerVisibility(activeLayer[1].id)
    \/ ~canRedo /\ Room /\ \E id \in LayerIds(layers), d \in {"up", "down"} :
          MoveLayer(id, d)
    \/ canUndo /\ Undo
    \/ canRedo /\ Redo

SpecOrder == InitOrder /\ [][NextOrder]_vars

\* Template files imported, and sessions loaded from the templates there are.
NextImport ==
    \/ uuidCount < MaxIds /\ \E text \in TemplateTexts : ImportTemplate(text)
    \/ Room /\ \E t \in DOMAIN templates : LoadFromTemplate(t)
    \/ Room /\ \E id \in LayerIds(layers) : DeleteLayer(id)
    \/ canUndo /\ Undo

SpecImport == Init /\ [][NextImport]_vars

\* The uploads that are still being read or decoded.
Uploading == {l \in loads : l.kind = "upload"}

\* An upload can start: when it and the uploads in flight have all set their
\* image, fewer than MaxDecodes render objects were made, and fewer than
\* MaxRejected decodes have failed.
CanUpload ==
    /\ oidCount + Cardinality(Uploading) < MaxDecodes
    /\ Len(rejected) < MaxRejected

\* Images uploaded from the home view one after the other, without waiting:
\* their decodes, the decodes of the base image they start, and a text.
NextUpload ==
    \/ CanUpload /\ \E i \in ImageInputs : StartUpload(i[1], i[2], i[3])
    \/ Quiet /\ \E l \in loads : UploadDecoded(l)
    \/ Quiet /\ Len(rejected) < MaxRejected /\ \E l \in loads : UploadFailed(l)
    \/ Early /\ CanAdd /\ Room /\ layers = <<>> /\
          \E p \in PositionInputs : AddTextWatermark("Test", p, Empty)
    \/ Flush
    \/ Quiet /\ \E l \in loads : BaseLoaded(l)
    \/ Quiet /\ Len(rejected) < MaxRejected /\ \E l \in loads : BaseFailed(l)

SpecUpload == InitRender /\ [][NextUpload]_vars

----------------------------------------------------------------------------
(* Claims. *)

\* C1: for every reachable state with canUndo true, undo() then immediately
\* redo() leaves the layers equal to the layers that were live just before
\* the undo() (updateLayer included among the operations that led there).
C1_UndoRedoRestores ==
    (lastOp.op = "redo" /\ lastOp.did /\ undone # <<>>) => layers = undone[1]

\* C2: a capture with the cursor before the last entry discards every
\* snapshot after the cursor, then appends the new one; the cursor points at
\* the new snapshot and canRedo is false after every capturing operation.
C2_DivergeDiscardsForward ==
    [][lastOp'.saved =>
          LET kept   == SubSeq(history, 1, historyIndex + 1)
              pushed == Append(kept, [layers |-> layers', live |-> FALSE])
          IN  /\ lastOp'.op # "setImage" =>
                    history' = IF Len(pushed) > MAX_HISTORY THEN Tail(pushed) ELSE pushed
              /\ historyIndex' = Len(history') - 1
              /\ ~canRedo']_vars

\* C2 witness: (A, B, C, D), two undos, then a capture: the history is (A, B, E).
C2_Witness ==
    /\ lastOp.saved
    /\ lastOp.cut = 2
    /\ Len(history) = 3
    /\ historyIndex = 2
    /\ history[3].layers = layers

\* C3: the history never holds more than 51 snapshots, and canUndo is true
\* right after a capture that evicted the oldest snapshot.
C3_HistoryBounded ==
    /\ Len(history) <= MAX_HISTORY + 1
    /\ (lastOp.saved /\ lastOp.evicted) => canUndo

C3_Witness ==
    /\ lastOp.saved
    /\ lastOp.evicted
    /\ Len(history) = MAX_HISTORY
    /\ canUndo

SnapshotsPreserved ==
    \E d \in {0, 1} : \E n \in 0..(Len(history) - d) :
        /\ Len(history') \in {n, n + 1}
        /\ \A j \in 1..n : history'[j] = history[j + d]
        /\ n + d >= historyIndex + 1
        /\ (d = 1 \/ n < Len(history)) => Len(history') = n + 1
        /\ d = 1 => historyIndex + 1 = MAX_HISTORY

NoSnapshotIsLive == \A j \in 1..Len(history) : ~history[j].live

\* C5 as claimed: no snapshot shares the live array, no operation changes a
\* snapshot's content, and snapshots leave the history only by eviction of
\* the oldest entry or by truncation of the forward branch.
C5_SnapshotsOnlyEvictedOrTruncated ==
    [][NoSnapshotIsLive' /\ SnapshotsPreserved]_vars

\* C5 as amended: as claimed, except that setImage and clear drop the whole
\* history (setImage then captures the empty layer set).
C5_SnapshotsImmutable ==
    [][/\ NoSnapshotIsLive'
       /\ \/ SnapshotsPreserved
          \/ /\ lastOp'.op \in {"setImage", "clear"}
             /\ Len(history') <= 1
             /\ \A j \in 1..Len(history') : history'[j].layers = <<>>]_vars

\* C5 witness: updateLayer has edited layers that came from a template list,
\* and the snapshot at the cursor still holds what was captured.
C5_Witness ==
    /\ lastOp.op = "updateLayer"
    /\ lastOp.did
    /\ liveTemplate # Null
    /\ Len(history) >= 2
    /\ history[historyIndex + 1].layers # layers
    /\ history[historyIndex + 1].layers = BuiltIn[liveTemplate]

\* C6: after each operation of a sequence of add, updateLayer and deleteLayer
\* operations, activeLayerId is none or the id of a layer of the layer set.
C6_ActiveIsNoneOrPresent ==
    activeLayerId = Null \/ activeLayerId \in LayerIds(layers)

\* C6 witness: the active layer (the one added last) was deleted and the
\* selection fell to the layer now first.
C6_Witness ==
    /\ lastOp.op = "deleteLayer"
    /\ lastOp.args[1] = uuidv4(2)
    /\ Len(layers) = 1
    /\ activeLayerId = layers[1].id

\* C7: in every state reachable by the public operations (setActiveLayer
\* with an arbitrary id included), the active layer reference is none or the
\* id of a layer of the layer set: the activeLayer getter finds its layer.
C7_ActiveReferenceResolves ==
    activeLayerId # Null => activeLayer # <<>>

\* C8: the live layers have pairwise distinct ids in every reachable state,
\* after undo() and redo() too.
C8_LayerIdsDistinct ==
    \A j, k \in 1..Len(layers) : j # k => layers[j].id # layers[k].id

\* C8 witness: a redo() brought back a template layer beside a generated one
\* after both generated ids had been used.
C8_Witness ==
    /\ lastOp.op = "redo"
    /\ Len(layers) = 2
    /\ LayerIds(layers) = {"frame-1", uuidv4(2)}
    /\ uuidCount = 2

\* C9: setImage(src, w, h) sets image, originalImageSize and canvasSize,
\* empties the layers and the selection and leaves one snapshot, of the empty
\* layer set, with the cursor on it: canUndo and canRedo are false.
C9_SetImageStartsAfresh ==
    lastOp.op = "setImage" =>
        /\ image = lastOp.args[1]
        /\ originalImageSize = Size(lastOp.args[2], lastOp.args[3])
        /\ canvasSize = [width |-> lastOp.args[2], height |-> lastOp.args[3]]
        /\ layers = <<>>
        /\ activeLayerId = Null
        /\ Len(history) = 1
        /\ history[1].layers = <<>>
        /\ historyIndex = 0
        /\ ~canUndo
        /\ ~canRedo

\* C9 witness: setImage ran on a session that had added its layers.
C9_Witness ==
    /\ lastOp.op = "setImage"
    /\ lastOp.args = <<"data:B", 400, 300>>
    /\ uuidCount = MaxIds

\* C10: on a fresh store, setImage(img, 800, 600), addFrame({borderWidth:
\* 20}), deleteLayer(id of that frame) ends with no layers, three snapshots,
\* canUndo true and canRedo false.
C10_Scenario ==
    script = 3 =>
        /\ layers = <<>>
        /\ Len(history) = 3
        /\ canUndo
        /\ ~canRedo

C10_Witness ==
    /\ script = 3
    /\ lastOp.op = "deleteLayer"
    /\ image = ScenarioImage[1]

\* C11: canUndo is true exactly when historyIndex > 0 and canRedo exactly when
\* historyIndex < history.length - 1; both are false in the initial state and
\* right after setImage.
C11_UndoRedoAvailability ==
    /\ canUndo <=> historyIndex > 0
    /\ canRedo <=> historyIndex < Len(history) - 1
    /\ lastOp.op \in {"init", "setImage"} => ~canUndo /\ ~canRedo

\* C11 witness: an undo() left the cursor between two snapshots: both are true.
C11_Witness ==
    /\ lastOp.op = "undo"
    /\ lastOp.did
    /\ historyIndex = 1
    /\ Len(history) = 3
    /\ canUndo
    /\ canRedo

\* The cursor moved by d onto a snapshot, the live layers are a copy of that
\* snapshot (equal to it, and not its array), the selection is none and the
\* history is what it was.
CursorMoved(d) ==
    /\ historyIndex' = historyIndex + d
    /\ historyIndex' \in 0..(Len(history) - 1)
    /\ layers' = history[historyIndex' + 1].layers
    /\ NoSnapshotIsLive'
    /\ activeLayerId' = Null
    /\ history' = history

\* C12: undo() with canUndo false and redo() with canRedo false change nothing
\* of the engine state; otherwise undo() moves the cursor back by one and
\* redo() forward by one, the live layers become a deep copy of the snapshot
\* now at the cursor, the selection becomes none and the history is unchanged.
C12_UndoRedoStep ==
    [][/\ lastOp'.op = "undo" =>
              IF canUndo THEN CursorMoved(-1) ELSE UNCHANGED engine
       /\ lastOp'.op = "redo" =>
              IF canRedo THEN CursorMoved(1) ELSE UNCHANGED engine]_vars

\* C12 witness: undo() was called on the first snapshot of a session that has
\* a layer and a selection, and both are still there.
C12_Witness ==
    /\ lastOp.op = "undo"
    /\ ~lastOp.did
    /\ historyIndex = 0
    /\ Len(history) = 1
    /\ layers # <<>>
    /\ activeLayerId = layers[1].id

AddOps == {"addImageLayer", "addTextWatermark", "addFrame", "addCollage"}

\* The layer type each add operation builds.
AddedType(op) ==
    CASE op = "addImageLayer"    -> "image"
      [] op = "addTextWatermark" -> "text"
      [] op = "addFrame"         -> "frame"
      [] op = "addCollage"       -> "collage"

\* The partial props the caller passed to an add operation.
Overrides(op, args) == IF op = "addTextWatermark" THEN args[3] ELSE args[1]

\* The step captured exactly one snapshot, of the layers it left: the history
\* is the history up to the cursor with that snapshot appended (less its oldest
\* entry when that made more than MAX_HISTORY), and the cursor is on it.
CapturedOnce ==
    LET pushed == Append(SubSeq(history, 1, historyIndex + 1),
                         [layers |-> layers', live |-> FALSE])
    IN  /\ history' = IF Len(pushed) > MAX_HISTORY THEN Tail(pushed) ELSE pushed
        /\ historyIndex' = Len(history') - 1

\* C13: each of the four add operations appends exactly one new layer at the
\* end (visible, not locked, the caller's props winning over the defaults),
\* leaves the layers that were there unchanged and in order, selects the new
\* layer and returns its id, and captures exactly one snapshot, which holds
\* the new layer.
C13_AddAppendsOne ==
    [][lastOp'.op \in AddOps =>
          LET n   == Len(layers')
              ov  == Overrides(lastOp'.op, lastOp'.args)
          IN  /\ n = Len(layers) + 1
              /\ SubSeq(layers', 1, n - 1) = layers
              /\ layers'[n].type = AddedType(lastOp'.op)
              /\ layers'[n].visible
              /\ ~layers'[n].lock
              /\ \A f \in DOMAIN ov : layers'[n].props[f] = ov[f]
              /\ activeLayerId' = layers'[n].id
              /\ lastOp'.ret = layers'[n].id
              /\ CapturedOnce
              /\ history'[historyIndex' + 1].layers[n] = layers'[n]]_vars

\* C13 witness: addFrame({borderWidth: 20}) after an undo(), on a session that
\* already had an image layer: the frame is second, selected and returned.
C13_Witness ==
    /\ lastOp.op = "addFrame"
    /\ lastOp.cut = 1
    /\ Len(layers) = 2
    /\ layers[1].type = "image"
    /\ layers[2].props.borderWidth = 20
    /\ activeLayerId = layers[2].id
    /\ lastOp.ret = layers[2].id

\* C14: updateLayer(id, partial) on an existing layer changes only the props
\* fields named in partial, on that layer: its other props fields, its id,
\* type, name, visible and lock, every other layer, the order, the selection,
\* the history and the cursor are unchanged.
C14_UpdateTouchesNamedFields ==
    [][(lastOp'.op = "updateLayer" /\ lastOp'.args[1] \in LayerIds(layers)) =>
          LET k == FindIndex(layers, lastOp'.args[1])
              u == lastOp'.args[2]
          IN  /\ Len(layers') = Len(layers)
              /\ \A j \in 1..Len(layers) : j # k => layers'[j] = layers[j]
              /\ layers'[k].id = layers[k].id
              /\ layers'[k].type = layers[k].type
              /\ layers'[k].name = layers[k].name
              /\ layers'[k].visible = layers[k].visible
              /\ layers'[k].lock = layers[k].lock
              /\ DOMAIN layers'[k].props = (DOMAIN layers[k].props) \cup (DOMAIN u)
              /\ \A f \in DOMAIN u : layers'[k].props[f] = u[f]
              /\ \A f \in (DOMAIN layers[k].props) \ (DOMAIN u) :
                     layers'[k].props[f] = layers[k].props[f]
              /\ activeLayerId' = activeLayerId
              /\ history' = history
              /\ historyIndex' = historyIndex]_vars

\* C14 witness: the second of two layers, an image layer that is not the
\* selected one, was updated: it has the new rotation and its old opacity.
C14_Witness ==
    /\ lastOp.op = "updateLayer"
    /\ lastOp.did
    /\ Len(layers) = 2
    /\ lastOp.args[1] = layers[2].id
    /\ activeLayerId = layers[1].id
    /\ layers[1].type = "frame"
    /\ "rotation" \notin DOMAIN layers[1].props
    /\ layers[2].type = "image"
    /\ layers[2].props.rotation = 90
    /\ layers[2].props.opacity = 100

\* C15: deleteLayer(id) on an existing layer removes exactly that layer and
\* keeps the others in order; if it was the active layer, the selection
\* becomes the layer now first, or none when no layer is left; if not, the
\* selection is unchanged; exactly one snapshot is captured.
C15_DeleteRemovesOne ==
    [][(lastOp'.op = "deleteLayer" /\ lastOp'.args[1] \in LayerIds(layers)) =>
          LET id == lastOp'.args[1]
              k  == FindIndex(layers, id)
          IN  /\ Len(layers') = Len(layers) - 1
              /\ \A j \in 1..(k - 1) : layers'[j] = layers[j]
              /\ \A j \in k..Len(layers') : layers'[j] = layers[j + 1]
              /\ activeLayerId' =
                     IF activeLayerId # id THEN activeLayerId
                     ELSE IF Len(layers') = 0 THEN Null
                     ELSE layers'[1].id
              /\ CapturedOnce]_vars

\* C15 witness: the first of two layers was deleted while the second was the
\* active one: the second is left, and is still the selection.
C15_Witness ==
    /\ lastOp.op = "deleteLayer"
    /\ lastOp.args[1] = uuidv4(1)
    /\ lastOp.saved
    /\ LayerIds(layers) = {uuidv4(2)}
    /\ activeLayerId = uuidv4(2)

\* C16: toggleLayerVisibility(id) on an existing layer negates that layer's
\* visible flag, changes nothing else of the layers or the selection and
\* captures exactly one snapshot; an undo() that follows it finds canUndo
\* true and brings the layer back with the visible value it had before.
C16_ToggleFlipsVisible ==
    [][/\ (lastOp'.op = "toggleLayerVisibility"
              /\ lastOp'.args[1] \in LayerIds(layers)) =>
             LET k == FindIndex(layers, lastOp'.args[1])
             IN  /\ layers' = [layers EXCEPT ![k].visible = ~layers[k].visible]
                 /\ activeLayerId' = activeLayerId
                 /\ CapturedOnce
       /\ (lastOp.op = "toggleLayerVisibility" /\ lastOp.did
              /\ lastOp'.op = "undo") =>
             LET k == FindIndex(layers, lastOp.args[1])
                 r == FindIndex(layers', lastOp.args[1])
             IN  /\ canUndo
                 /\ r # 0
                 /\ layers'[r].visible = ~layers[k].visible]_vars

\* C16 witness: an undo() made a hidden layer visible again and changed
\* nothing else.
C16_Witness ==
    /\ lastOp.op = "undo"
    /\ lastOp.did
    /\ undone # <<>>
    /\ Len(layers) >= 1
    /\ Len(undone[1]) = Len(layers)
    /\ ~undone[1][1].visible
    /\ layers = [undone[1] EXCEPT ![1].visible = TRUE]

\* C17: moveLayer(id, 'up') swaps the layer with its neighbour at the next
\* higher index and moveLayer(id, 'down') with the one at the next lower
\* index, leaves the other positions unchanged and captures exactly one
\* snapshot; when the layer is already last ('up') or first ('down') the
\* layers and the history are unchanged. On two layers, moving the first up
\* swaps the two and moving the first down changes nothing.
C17_MoveSwapsNeighbours ==
    [][(lastOp'.op = "moveLayer" /\ lastOp'.args[1] \in LayerIds(layers)) =>
          LET id  == lastOp'.args[1]
              dir == lastOp'.args[2]
              k   == FindIndex(layers, id)
              n   == IF dir = "up" THEN k + 1 ELSE k - 1
          IN  /\ IF n \in 1..Len(layers)
                 THEN /\ Len(layers') = Len(layers)
                      /\ layers'[n] = layers[k]
                      /\ layers'[k] = layers[n]
                      /\ \A j \in 1..Len(layers) :
                             j \notin {k, n} => layers'[j] = layers[j]
                      /\ CapturedOnce
                 ELSE /\ layers' = layers
                      /\ history' = history
                      /\ historyIndex' = historyIndex
              /\ (Len(layers) = 2 /\ k = 1 /\ dir = "up") =>
                     layers' = <<layers[2], layers[1]>>
              /\ (Len(layers) = 2 /\ k = 1 /\ dir = "down") =>
                     layers' = layers]_vars

\* C17 witness: the middle one of three layers was moved up: it is last, the
\* layer that was last is in the middle and the first is where it was.
C17_Witness ==
    /\ lastOp.op = "moveLayer"
    /\ lastOp.args = <<uuidv4(2), "up">>
    /\ lastOp.saved
    /\ Len(layers) = 3
    /\ layers[1].id = uuidv4(1)
    /\ layers[2].id = uuidv4(3)
    /\ layers[3].id = uuidv4(2)
    /\ Len(history) = 4

\* C18: updateLayer, deleteLayer, toggleLayerVisibility and moveLayer called
\* with an id that no layer of the current set has leave the whole engine
\* state unchanged: layers, activeLayerId, history, historyIndex, image,
\* canvasSize and zoom (and originalImageSize).
C18_UnknownIdIsNoOp ==
    [][(/\ lastOp'.op \in {"updateLayer", "deleteLayer",
                            "toggleLayerVisibility", "moveLayer"}
        /\ lastOp'.args[1] \notin LayerIds(layers)) =>
          /\ UNCHANGED engine
          /\ ~lastOp'.did]_vars

\* C18 witness: deleteLayer ran with the id of a layer that is gone, in a
\* session that has another layer, a selection and a snapshot to redo.
C18_Witness ==
    /\ lastOp.op = "deleteLayer"
    /\ lastOp.args[1] = uuidv4(1)
    /\ ~lastOp.did
    /\ uuidv4(1) \notin LayerIds(layers)
    /\ layers # <<>>
    /\ activeLayerId \in LayerIds(layers)
    /\ canRedo

\* C19: setActiveLayer and setZoom never change layers, history or
\* historyIndex: setActiveLayer changes only activeLayerId, which becomes its
\* argument, and setZoom changes only zoom.
C19_SelectionAndZoomArePure ==
    [][/\ lastOp'.op = "setActiveLayer" =>
             /\ activeLayerId' = lastOp'.args[1]
             /\ UNCHANGED <<image, originalImageSize, layers, zoom, canvasSize,
                            history, historyIndex>>
       /\ lastOp'.op = "setZoom" =>
             UNCHANGED <<image, originalImageSize, layers, activeLayerId,
                         canvasSize, history, historyIndex>>]_vars

\* C19 witness: setActiveLayer selected the layer of a session that was
\* zoomed to 2 and has a snapshot to redo.
C19_Witness ==
    /\ lastOp.op = "setActiveLayer"
    /\ layers # <<>>
    /\ lastOp.args[1] = layers[1].id
    /\ activeLayerId = layers[1].id
    /\ zoom = 200
    /\ canRedo

\* C20: zoom is in [0.1, 5.0] in every reachable state, setZoom(NaN) among
\* the calls that led there.
C20_ZoomInRange == zoom \in ZoomMin..ZoomMax

LeftColumn == {"topLeft", "middleLeft", "bottomLeft"}

CentreColumn == {"topCenter", "middleCenter", "bottomCenter"}

TopRow == {"topLeft", "topCenter", "topRight"}

MiddleRow == {"middleLeft", "middleCenter", "middleRight"}

\* C21: addTextWatermark places the new layer at the anchor of the named
\* position on the current canvas (W, H), padding 20: x is 20 in the left
\* column, W/2 in the centre column, W - 20 in the right column; y is 20 in
\* the top row, H/2 in the middle row, H - 20 in the bottom row; an omitted or
\* unrecognised position ('custom' too) gives (W - 20, H - 20). On 800 x 600,
\* topLeft is (20, 20), middleCenter (400, 300), bottomRight (780, 580).
C21_AnchorGrid ==
    [][lastOp'.op = "addTextWatermark" =>
          LET p   == lastOp'.args[2]
              W   == canvasSize.width
              H   == canvasSize.height
              new == layers'[Len(layers')].props
          IN  /\ new.x = IF p \in LeftColumn THEN 20
                         ELSE IF p \in CentreColumn THEN W \div 2
                         ELSE W - 20
              /\ new.y = IF p \in TopRow THEN 20
                         ELSE IF p \in MiddleRow THEN H \div 2
                         ELSE H - 20
              /\ (W = 800 /\ H = 600 /\ p = "topLeft") =>
                     (new.x = 20 /\ new.y = 20)
              /\ (W = 800 /\ H = 600 /\ p = "middleCenter") =>
                     (new.x = 400 /\ new.y = 300)
              /\ (W = 800 /\ H = 600 /\ p = "bottomRight") =>
                     (new.x = 780 /\ new.y = 580)]_vars

\* C21 witness: a text watermark added at 'custom' on a 400 x 300 canvas is
\* at (380, 280).
C21_Witness ==
    /\ lastOp.op = "addTextWatermark"
    /\ lastOp.args[2] = "custom"
    /\ canvasSize = [width |-> 400, height |-> 300]
    /\ layers[Len(layers)].props.x = 380
    /\ layers[Len(layers)].props.y = 280

\* The label of each layer type in a generated name.
TypeLabel(t) ==
    CASE t = "image"   -> "Image"
      [] t = "text"    -> "Text"
      [] t = "frame"   -> "Frame"
      [] t = "collage" -> "Collage"

\* C22: a newly added layer is named '<TypeLabel> <N>', N being one more than
\* the number of layers of its type in the layer set when it is created; an
\* addition or a deletion changes the name of no layer that stays.
C22_NameCountsSameType ==
    [][/\ lastOp'.op \in AddOps =>
             LET new  == layers'[Len(layers')]
                 same == {k \in 1..Len(layers) : layers[k].type = new.type}
             IN  new.name = TypeLabel(new.type) \o " " \o ToString(Cardinality(same) + 1)
       /\ lastOp'.op \in AddOps \cup {"deleteLayer"} =>
             \A j \in 1..Len(layers), k \in 1..Len(layers') :
                 layers[j].id = layers'[k].id => layers[j].name = layers'[k].name]_vars

\* C22 witness: the second frame was named 'Frame 2' and keeps that name now
\* that the first is deleted.
C22_Witness ==
    /\ lastOp.op = "deleteLayer"
    /\ lastOp.args[1] = uuidv4(1)
    /\ Len(layers) = 1
    /\ layers[1].type = "frame"
    /\ layers[1].name = "Frame 2"

\* C23: from any state, clear() leaves no image, no originalImageSize, no
\* layers, no selection, an empty history with historyIndex -1 (canUndo and
\* canRedo false) and the canvas size 800 x 600.
C23_ClearResets ==
    lastOp.op = "clear" =>
        /\ image = Null
        /\ originalImageSize = NoSize
        /\ layers = <<>>
        /\ activeLayerId = Null
        /\ history = <<>>
        /\ historyIndex = -1
        /\ ~canUndo
        /\ ~canRedo
        /\ canvasSize = [width |-> 800, height |-> 600]

\* C23 witness: clear() ran on a session that had generated all its ids.
C23_Witness ==
    /\ lastOp.op = "clear"
    /\ uuidCount = MaxIds
    /\ canvasSize = DefaultCanvas

\* C24: loadFromTemplate(L) makes the live layers equal to L, in L's order,
\* sets activeLayerId to the id of L's first layer, or to none when L is
\* empty, and captures exactly one snapshot, of L.
C24_LoadReplaces ==
    [][lastOp'.op = "loadFromTemplate" =>
          LET L == templates[lastOp'.args[1]]
          IN  /\ layers' = L
              /\ activeLayerId' = IF L = <<>> THEN Null ELSE L[1].id
              /\ CapturedOnce
              /\ history'[historyIndex' + 1].layers = L]_vars

\* C24 witness: an empty list was loaded over a session that had a layer and
\* a selection: no layer, no selection, one more snapshot.
C24_Witness ==
    /\ lastOp.op = "loadFromTemplate"
    /\ templates[lastOp.args[1]] = <<>>
    /\ layers = <<>>
    /\ activeLayerId = Null
    /\ uuidCount >= 1
    /\ Len(history) >= 2
    /\ history[historyIndex].layers # <<>>

Reconciled == Quiet /\ loads = {} /\ lastOp.op # "init"

\* C26: after the renderer has reconciled a layer set, the keys of its map
\* are the ids of the layers in the store: every layer has a render object
\* recorded under its id, on the canvas, and no id that is not a layer's has
\* an entry.
C26_MapMatchesLayers ==
    Reconciled =>
        /\ DOMAIN fabricObjects = LayerIds(layers)
        /\ \A id \in DOMAIN fabricObjects :
              \E j \in 1..Len(fabricCanvas) : fabricCanvas[j].oid = fabricObjects[id]

\* C27: the objects one layer is drawn as (the rectangles of a frame, the
\* images of a collage) all carry the layer's id, and after a delete or an
\* undo is reconciled no object tagged with an id that is no layer's remains
\* on the canvas.
C27_NoObjectOfAbsentLayer ==
    Reconciled =>
        \A j \in 1..Len(fabricCanvas) :
            /\ fabricCanvas[j].kind \in {"rect", "cell"} => fabricCanvas[j].tag # Null
            /\ fabricCanvas[j].tag # Null => fabricCanvas[j].tag \in LayerIds(layers)

\* The object shows the visual props the renderer draws from the layer.
Reflects(o, layer) ==
    CASE layer.type = "text" ->
            /\ o.shown.text = layer.props.text
            /\ o.shown.fontSize = layer.props.fontSize
            /\ o.shown.color = layer.props.color
            /\ o.shown.opacity = layer.props.opacity
      [] layer.type = "image-watermark" -> o.shown.opacity = layer.props.opacity
      [] layer.type = "frame" -> o.shown.borderColor = layer.props.borderColor
      [] OTHER -> TRUE

\* C28: when the props of a layer changed and its id stayed in the layer set
\* (updateLayer, undo, redo), the watchers leave the id mapped to the same
\* render object, leave that object on the canvas, and make it show the
\* layer's current props.
C28_UpdatedInPlace ==
    [][(~flushed /\ flushed') =>
          \A id \in DOMAIN fabricObjects :
              \A k \in 1..Len(seen.layers), j \in 1..Len(layers') :
                  (/\ seen.layers[k].id = id
                   /\ layers'[j].id = id
                   /\ seen.layers[k].props # layers'[j].props
                   /\ \E n \in 1..Len(fabricCanvas) : fabricCanvas[n].oid = fabricObjects[id])
                  => /\ id \in DOMAIN fabricObjects'
                     /\ fabricObjects'[id] = fabricObjects[id]
                     /\ \E n \in 1..Len(fabricCanvas') :
                           /\ fabricCanvas'[n].oid = fabricObjects[id]
                           /\ Reflects(fabricCanvas'[n], layers'[j])]_vars

\* C29: a decode started for an earlier layer set adds nothing to the canvas
\* once a later layer set was reconciled: the image a completed decode adds
\* is for a layer of the current layer set, and when every decode is done
\* the canvas shows objects of the current layers only.
C29_StaleLoadsDropped ==
    [][\A l \in loads :
          (/\ l.kind # "base"
           /\ \A m \in loads' : m.oid # l.oid
           /\ \E n \in 1..Len(fabricCanvas') : fabricCanvas'[n].oid = l.oid)
          => l.layer \in LayerIds(layers')]_vars

\* C30: the renderer changes layers and the selection through the store's
\* operations only (setActiveLayer on a selection, updateLayer on a committed
\* transform): a step that changes layers or activeLayerId is an operation of
\* the store, and no run of the watchers assigns to a field of a layer.
C30_WritesThroughOperations ==
    [][/\ assigned' = {}
       /\ (layers' # layers \/ activeLayerId' # activeLayerId) => ~flushed']_vars

\* The base images on the canvas, as positions in the stacking order.
BaseObjects == {j \in 1..Len(fabricCanvas) : fabricCanvas[j].kind = "base"}

\* Every decode of a base image has completed, none has failed, and the
\* watchers have run.
BasesDecoded ==
    /\ Quiet
    /\ image # Null
    /\ seen.image = image
    /\ \A l \in loads : l.kind \notin {"base", "upload"}
    /\ \A j \in 1..Len(rejected) : rejected[j].kind # "base"

\* C31: once the decodes of the base images have all completed, whatever
\* the order of their completion and whether or not a setImage was issued
\* while the decode started for an earlier one was pending, the canvas holds
\* exactly one base image, and it is the image of the last setImage (an
\* image's source fixes its dimensions).
C31_LastImageWins ==
    BasesDecoded =>
        /\ Cardinality(BaseObjects) = 1
        /\ \A j \in BaseObjects : fabricCanvas[j].shown.src = image

\* C32: a decode that fails, of an uploaded file or of the base image in
\* the renderer, is recorded as failed and leaves the engine state
\* (image, originalImageSize, canvasSize, layers, activeLayerId, zoom,
\* history, historyIndex) as it was: no operation of the store is called
\* and no watcher is triggered.
C32_FailedDecodeChangesNothing ==
    [][rejected' # rejected =>
          /\ \E l \in loads : loads' = loads \ {l} /\ rejected' = Append(rejected, l)
          /\ UNCHANGED engine
          /\ lastOp' = lastOp
          /\ flushed' = flushed
          /\ fabricCanvas' = fabricCanvas]_vars

\* C32 witness: in a session with an image and a text layer, an upload and
\* the decode of a base image have failed, and the session is as the first
\* upload left it.
C32_Witness ==
    /\ Len(rejected) = 2
    /\ rejected[1].kind = "upload"
    /\ rejected[2].kind = "base"
    /\ image # Null
    /\ image # rejected[1].src
    /\ Len(layers) = 1
    /\ Len(history) = 2

\* The text is no JSON text, or its value has no name, no category or no
\* config (a value that is no object has none of them).
Malformed(jsonString) ==
    \/ JSONParse(jsonString).kind = "SyntaxError"
    \/ {"name", "category", "config"} \ JSONParse(jsonString).keys # {}

\* C33: importTemplate, given a text that is not valid JSON or that lacks
\* name, category or config, returns null (it returns: the call has an
\* outcome in the store's next state), returns no template, and leaves the
\* templates there are, and the engine, as they were.
C33_MalformedImportReturnsNull ==
    [][(lastOp'.op = "importTemplate" /\ Malformed(lastOp'.args[1])) =>
          /\ lastOp'.ret = Null
          /\ templates' = templates
          /\ uuidCount' = uuidCount
          /\ UNCHANGED engine]_vars

\* C33 witness: after a template file was imported, the import of
\* {"name":"Only Name"} returned null and the imported template is the only
\* custom template.
C33_Witness ==
    /\ lastOp.op = "importTemplate"
    /\ lastOp.args[1] = "{\"name\":\"Only Name\"}"
    /\ lastOp.ret = Null
    /\ DOMAIN templates = {"builtin-1", "u1"}
    /\ templates["u1"] = FileLayers

\* C34: a capture made while the history holds 50 snapshots and the cursor
\* is 49 removes the oldest snapshot, keeps the other 49 unchanged and in
\* order, and appends the new snapshot: the length stays 50 and the cursor
\* stays 49, on the new snapshot. Every other capture moves the cursor
\* forward by exactly one, onto the appended snapshot, which is the last
\* entry (setImage captures on the history it has just emptied, with the
\* cursor at -1).
C34_CaptureMovesCursor ==
    [][lastOp'.saved =>
          LET h == IF lastOp'.op = "setImage" THEN <<>> ELSE history
              i == IF lastOp'.op = "setImage" THEN -1 ELSE historyIndex
              n == Len(history')
          IN  /\ n >= 1
              /\ history'[n].layers = layers'
              /\ historyIndex' = n - 1
              /\ IF Len(h) = MAX_HISTORY /\ i = MAX_HISTORY - 1
                 THEN /\ n = MAX_HISTORY
                      /\ historyIndex' = MAX_HISTORY - 1
                      /\ \A j \in 1..(MAX_HISTORY - 1) : history'[j] = h[j + 1]
                 ELSE /\ historyIndex' = i + 1
                      /\ \A j \in 1..(i + 1) : history'[j] = h[j]]_vars

\* C34 witness: a toggle was captured on a full history with the cursor at
\* its end; the history is still full, the cursor is 49 and the entry under
\* it is the toggled layer set, which differs from the entry before it.
C34_Witness ==
    /\ lastOp.op = "toggleLayerVisibility"
    /\ lastOp.evicted
    /\ Len(history) = MAX_HISTORY
    /\ historyIndex = MAX_HISTORY - 1
    /\ history[MAX_HISTORY].layers = layers
    /\ history[MAX_HISTORY - 1].layers # layers

\* The ids of the layers, in stacking order.
IdsOf(ls) == [k \in 1..Len(ls) |-> ls[k].id]

\* The layers that are in the layer set before and after the step are in
\* the same relative order after it as before.
OrderKept ==
    \A a, b \in LayerIds(layers) \cap LayerIds(layers') :
        FindIndex(layers, a) < FindIndex(layers, b) =>
            FindIndex(layers', a) < FindIndex(layers', b)

\* What the claim says of each operation it names: an add appends at the
\* end, deleteLayer removes one element, updateLayer and
\* toggleLayerVisibility keep every position, and a moveLayer that moves
\* exchanges two adjacent positions.
OrderByOperation ==
    LET ids == IdsOf(layers)
        op  == lastOp'.op
    IN  /\ op \in AddOps => IdsOf(layers') = Append(ids, lastOp'.ret)
        /\ (op = "deleteLayer" /\ lastOp'.did) =>
              \E k \in 1..Len(ids) : IdsOf(layers') = Splice(ids, k)
        /\ op \in {"updateLayer", "toggleLayerVisibility"} => IdsOf(layers') = ids
        /\ (op = "moveLayer" /\ lastOp'.did) =>
              \E k \in 1..(Len(ids) - 1) :
                  IdsOf(layers') = [ids EXCEPT ![k] = ids[k + 1], ![k + 1] = ids[k]]

\* C35 as claimed: no operation other than moveLayer changes the relative
\* order of the layers that are there before and after it, and each named
\* operation does to the positions what the claim says.
C35_OnlyMoveReorders ==
    [][(lastOp'.op # "moveLayer" => OrderKept) /\ OrderByOperation]_vars

\* C35 as amended: as claimed, except that undo, redo and loadFromTemplate
\* put the layers in the order of the list they install.
C35_OrderKept ==
    [][/\ lastOp'.op \notin {"moveLayer", "undo", "redo", "loadFromTemplate"} =>
              OrderKept
       /\ OrderByOperation]_vars

\* C35 witness: a frame was added to a session loaded from the template of
\* two layers and reordered, and it is last, behind it the template's
\* layers in the order the move left them.
C35_Witness ==
    /\ lastOp.op = "addFrame"
    /\ IdsOf(layers) = <<"pair-2", "pair-1", "u1">>

\* C36: in every reachable state the cursor is at least -1 and at most the
\* index of the last snapshot, it is -1 exactly when the history is empty,
\* and the history holds at most 50 snapshots.
C36_CursorInRange ==
    /\ -1 <= historyIndex
    /\ historyIndex <= Len(history) - 1
    /\ (historyIndex = -1) <=> (history = <<>>)
    /\ Len(history) <= MAX_HISTORY

\* C36 witness: the history is full and undo() has moved the cursor off its
\* last snapshot, in a session started again after a clear().
C36_Witness ==
    /\ lastOp.op = "undo"
    /\ lastOp.did
    /\ Len(history) = MAX_HISTORY
    /\ historyIndex = MAX_HISTORY - 2
    /\ image = Null
    /\ layers # <<>>

\* C37: an effective undo(), the first after a capture, leaves the live
\* layers exactly as they were just before the operation that made that
\* capture was applied, whatever updateLayer calls were made between the
\* captures and since.
C37_UndoRevertsLastCapture ==
    [][(lastOp'.op = "undo" /\ lastOp'.did /\ beforeCapture # <<>>) =>
          layers' = beforeCapture[1]]_vars

\* C38: no operation of the engine changes a list a template caller holds:
\* after loadFromTemplate(L), L and the layers in it stay as they were when
\* they were handed over, whatever is done to the live layers.
C38_CallerListUntouched ==
    [][\A t \in DOMAIN templates : templates'[t] = templates[t]]_vars

\* C39: on a store that has no image and an empty history (fresh, or right
\* after clear()), an operation that captures leaves exactly one snapshot,
\* that of the layers it left, with the cursor on it: canUndo is false, and
\* no snapshot holds the layer set that was live before the operation.
C39_FirstCaptureCannotBeUndone ==
    [][(image = Null /\ history = <<>> /\ lastOp'.saved /\ lastOp'.op # "setImage") =>
          /\ Len(history') = 1
          /\ historyIndex' = 0
          /\ history'[1].layers = layers'
          /\ ~canUndo'
          /\ ~canRedo']_vars

\* C39 witness: addCollage() was the first capture after a clear(): the
\* history holds one snapshot, with the collage.
C39_Witness ==
    /\ lastOp.op = "addCollage"
    /\ image = Null
    /\ uuidCount = 2
    /\ Len(history) = 1
    /\ historyIndex = 0
    /\ Len(layers) = 1
    /\ history[1].layers = layers

\* The decodes in flight for the image watermark id.
Pending(id) == {l \in loads : l.kind = "watermark" /\ l.layer = id}

\* The objects on the canvas that are tagged with the layer id.
Drawn(id) == {j \in 1..Len(fabricCanvas) : fabricCanvas[j].tag = id}

\* C40: an image-watermark layer of the layer set is materialised at most
\* once: at most one decode is in flight for it, and none once it has an
\* object on the canvas, so that a run of the layers watcher made while the
\* decode is pending (the run the watcher queues by its own assignment
\* among them) starts no other; and once the decodes have completed and the
\* watchers have run, exactly one object on the canvas is tagged with its id.
C40_MaterialisedOnce ==
    \A k \in 1..Len(layers) :
        layers[k].type = "image-watermark" =>
            /\ Cardinality(Pending(layers[k].id)) + Cardinality(Drawn(layers[k].id)) <= 1
            /\ (Quiet /\ loads = {}) => Cardinality(Drawn(layers[k].id)) = 1
====
